# Winzy.ai: a formal model of the habit tracker

Winzy.ai is a habit tracker whose users challenge each other, make promises
about their habits and share them with friends. The backend is one Go process
over one PostgreSQL database; the clients are an Expo / React Native app, which
is also a web app, and a service worker. This directory holds TLA+ modules that
model the stateful parts of both, TLC configurations that check them, and TLAPS
proofs.

## 1. The system

Backend parts are under `backend/internal`, frontend parts under `frontend/src`.

| part | state | operations | what must be right | modelled in |
|---|---|---|---|---|
| `challenges`: engine, lifecycle | `challenges` rows | create, list, claim, cancel; engine on `HabitCompleted`; cascade on `UserDeleted` | counters agree with the dates processed; one Active row per (creator, recipient, habit); completion and its notification commit together; a reward once announced is not taken back | `Challenges`, `ChallengeLifecycle` |
| `challenges`: invites | `challenge_invites` rows | create, preview, claim, revoke, expiry | one claim per invite, all of it or nothing; the cap of 20 | `Invites`, `Friendships` (the upserts of two claims) |
| `social`: friendships | two rows per friendship | send, accept, decline, remove, `EnsureFriendship` | both directions or none; consent of both; no deadlock between claims | `Friendships` |
| `social`: witness links | `witness_links` rows | create, update, rotate, revoke, a visit | a visitor is shown only what was shared | `Links` |
| `social`: visibility | `visibility_settings`, `social_preferences` | set, follow habit events | rows follow habits; the form saves what it shows | `Promises`, `HabitForm` |
| `habits`: promises, archiving | `habits`, `promises` | create, read with lazy resolution, toggle, cancel, archive | ends once, in one way, only when over | `Promises`, `PromiseLifecycle`, `PromiseCard` |
| `habits`: completions | `completions`, client caches | complete, edit, delete from two screens | the screens end with what the server holds | `Challenges` (event), `Completions` |
| `habits`: order; `todos`: order | positions | reorder, retry after a conflict | the order meant is the order kept | `Ordering` |
| `habits`: consistency | none (pure) | score, range, flame level, stats | agrees with its definition at every edge | `Consistency` |
| `notifications`: inbox | rows, two cached queries | list by pages, mark as read, poll the badge | list and badge end with what the server holds | `Inbox` |
| `notifications`: reminders | rows, settings | a scheduler pass a minute, detached push | at most one a day; a day that needs one has one | `Reminders` |
| `notifications`: settings, devices | settings rows, device tokens, browser subscription | switch, save, prune | the switch and the settings tell the truth | `Push` |
| `activity` | feed entries, client pages | handlers of seven events, page by batches | nothing visible skipped, nothing hidden shown | `Feed` |
| `todos` | rows, two cached lists | create, complete, reopen, delete, restore | the lists end with what the server holds | `Todos` |
| `ratelimit` | counters per address | a request, scavenging | at most twice the limit in a window's length | `Limiter` |
| `auth`, `api/client.ts`, `useAuth` | refresh tokens, token store | sign-in, rotation, replay, sign-out | nobody is signed out by a race; no write twice | `Session` |
| `navigation`, notification clicks | overlay stack, history, gates | open, close, Back, click, claim after sign-up | Back never leaves the app over an overlay; an invite is not forgotten | `Navigation` |
| challenge wizards | draft, step | both wizards | one opening sets one challenge, the one shown | `Wizards` |
| challenge celebration | polled list, queue | claim, dismiss, change of account | each celebrated once, none missed | `Celebration` |
| friends screens | three cached queries | send, answer, cancel, remove | the screens end with what the server holds | `Circle` |
| habit form | draft, two-step submission | create, edit, retry of the second step | one form makes one habit, saved as submitted | `HabitForm` |
| meditation | timer, log sheet | start, pause, end, log | the chosen time runs in full; the row marked is the row logged | `Meditation` |
| `events`, `db` | handler table | synchronous dispatch, querier on the context | effects commit with the emitter | folded into the emitting actions |

**Interaction.** Backend packages call each other in process and publish typed
events (`events/registry.go`). Dispatch is synchronous: a handler runs in the
emitter's goroutine and, if the emitter put its transaction on the context
(`db.WithQuerier`), in the emitter's transaction. `HabitCreated`,
`HabitArchived`, `UserDeleted`, `ChallengeCreated` and `ChallengeCompleted` are
emitted inside a transaction; `HabitCompleted`, the friend-request events and
`ChallengeInviteClaimed` after the commit, with errors logged only. The client
calls the backend over HTTP through one `apiRequest`; its hooks keep the answers
in a query cache which they patch before the server has answered, restore when
it refuses, and fetch again when the call has settled.

**What is hard.** Every request is a goroutine; PostgreSQL runs at READ
COMMITTED and most handlers read in one statement and write in another. So a
handler acts on rows that others may have changed, deleted or re-created; an
UPDATE of a locked row waits and then sees the newest version; a DELETE sees
only what its statement's snapshot contained; a partial unique index makes
insertions wait for uncommitted keys; cycles of waits are aborted. A request may
be cut off at any statement, which rolls back its open transaction and keeps
what it committed before. The clock moves between the statements of a request,
and a user's civil date differs from the UTC date. On the client, answers come
late, out of order or not at all; a fetch begun before a change is answered
after it; a rollback restores what was on the screen before three other things
happened; a screen is left and entered again while its call is under way;
`popstate` events report traversals that were begun several renders ago.

## 2. Modules

### The backend's tables

`Challenges`, `Friendships`, `Promises` and `Invites` share one form. A request
`r` is a process: `pc[r]` names the next statement of its handler and `"idle"`
that none runs; `job[r]`, `who[r]`, `seen[r]` and `todo[r]` are its input and
what it has read. An autocommitted statement changes the tables directly. A
transaction keeps its row versions in `writes[r]` (`held[r]` in `Promises`):
such rows are locked, invisible to the others, and installed at commit.
`Return` and `Answer` are the end of a handler: whatever is still open is rolled
back. `Interrupt` is a database error, a cancelled request context or a crash,
possible at every step. `DeleteAccount` is the whole `UserDeleted` cascade as
one step, enabled when no row it deletes is locked; rows inserted later by
requests in flight are not covered, as in the code. `Invites` runs the cascade
statement by statement.

**Challenges.** `CompleteHabit` logs the completion (one per habit and date, at
most 59 days back) and turns into the engine: `ListActive` (the unlocked
SELECT), then for each row in any order `SkipRow` or `UpdateProgress`, then
`CommitProgress`. `UpdateProgress` computes the row from its snapshot and
overwrites the columns of the SET list on the newest committed version
(`Overwrite`), so stale snapshots are really written. `UniqueViolation` is the
case in which writing `Active` back meets another Active row of the triple.
`StartCreate`, `ExpireStaleActive`, `InsertChallenge`, `StartClaim`,
`UpdateClaimed`, `StartCancel` and `UpdateCancelled` are the endpoints.
`StartList`, `SelectRows` and `Show` are `List`, which reads the clock for its SQL
filter, runs its queries, and reads the clock again for the status each row
shows; the clock and other requests may move in between. `reverted` is the set of
challenges over whose reached reward an engine wrote an older status. Progress
in [0,1] is counted in units of 1/target; the consistency score carried by an
event is any level up to `MaxLevel`; the custom range's consistency lookup may
fail, find no habit or return any level; recipients have challenge notifications
switched on; failed pre-checks, which change nothing, are not steps.
`ChallengeLifecycle` is what a challenge promises its participants.

**Friendships.** `rows` maps a direction to a row or `NoRow`; ids tell a row
from a later one in the same place. Accept is `StartAccept` (the SELECT),
`UpdateAccepted` (by id), `InsertReverse`, `Commit`. `StartRemove` fixes the
statement snapshot of the DELETE and `DeleteOne` locks and deletes its rows one
by one. `StartEnsure`, `UpsertFirst` and `UpsertSecond` are `EnsureFriendship`
inside a claim. `Ops` selects the operations clients use.

**Promises.** One user's habits, visibility rows and promises. The promise
endpoints are a habit look-up (`Start...`), a promise look-up (`LookTo...`) and
a write. Archive is one transaction; its last UPDATE, the `HabitArchived`
handler and the commit are one step: the rows those statements write are read by
no other request before the commit. Whether a promise was kept or ended below is
a choice; a local date is within `Skew` of the UTC date; of a visibility row
only its existence is kept. `PromiseLifecycle` is what a promise is to its
owner.

**Invites.** Create counts and inserts; revoke looks up and writes; a claim
locks the invite (`FOR UPDATE`), checks it, makes the friendship, the habit and
the challenge and commits. The two rows of a friendship are one here. `told`
holds the invites whose claim was answered, `gone` the accounts whose deletion
began, `crossed` the creators whose creations overlapped.

**Feed.** Entries inserted, hidden, restored and deleted by events, whose
after-commit handlers may be lost or overtake one another; a request that reads
batches of `BatchSize` until `Limit` are visible or `MaxIterations` are spent,
with the settings read in between; the client's pages.

**Links.** `Ended` records in `gone` that a link was revoked, which nothing undoes.
`Widened` is what a visitor may come to see, and not what the page shows: a habit
added to a link during a visit counts only while the address is still that of a
link that was not revoked, or once the look-up has let the visitor in.

**Reminders** counts time in slots of the user's wall clock; a change of the
clock skips or repeats `Gap` of them. `complete` says whether anything due today is
still to be logged; `Complete` logs the last of it, and `Reopen` takes a
completion back or makes another habit due, in any slot of the day. **Limiter** reads the clock in one step and
takes the lock in a later one. **Consistency** is the algorithm as operators
over every history of a short window: a week is named by its Monday, as in
`calcWeekly`, and `Overlap` is the part of it that counts. Its properties state
the score again by counting the calendar weeks or days.

### The client

`Session` has the server's rotation and a client's requests, each sent, handled
and answered in three steps; `jar` is the refresh token the client would present
(cookie or stored). Another tab shares the cookie and nothing else: it may refresh,
sign in or sign up as any user, sign out or delete the account (`OtherTab`), and
the cookie of its answer arrives later. This page is told nothing of it. `Navigation` keeps all that the
history and the overlays do to each other in one record `nav`; `nav.going` is
the queue of traversals whose `popstate` is still to come.

The other client modules share a form too. The server's rows are one or two
variables; `cache`, `list` or `data` is what is on the screen; a `fetch` is
sent, read and delivered in separate steps; a `call` is sent, handled and
answered, and either message may be lost (a call that the client gave up on was carried
out by then or never is). Rollbacks restore the snapshot that
the hook took; a mutation that cancels queries drops the fetch under way;
`events` counts failures and changes made elsewhere.

In `Circle` a press of a row that withdraws or removes opens a question (`Ask`), and
its confirmation makes the call without another look at the row (`Cancel`,
`RemoveFriend`; `FriendsScreen.tsx:87-121`). The system's dialog is modal, so while
it is open nothing else on the screen is pressed; that a second tap comes through
before the first dialog is drawn is not modelled.

Where the code keeps a promise only sometimes, the module says when. A history
variable names the case in which it does not, and the property excepts it and
nothing else: `blind` (a fetch failed or was cancelled and nothing reads again),
`strayed` (the history lost track: a traversal or tab change that overtook
another, or waiting clicks that select a tab from one that is no longer open),
`spoiled` (an answer that carried new tokens was lost, the calls of one session
met the next, or another tab signed out, deleted the account or signed in as
somebody else; on the web until the page is loaded again), `reverted` (an engine
wrote an older status over a reached reward), `hasty` (the button pressed while only the
second half of a submission was under way), `lost` (an answer lost after the
server had acted), `excused` and `sprung` (a day
without a scheduler pass, with a pass that found nothing left to log, with
reminders off, or on which settings or zone changed; a change to summer time), `crossed`, `moved`, `slipped`, `late`, `alone`,
`serial`. Section 3 lists what these cases are in the code.

### Composition and checking modules

`Screens` is the composition of the seventeen smaller modules. Each takes its
constants from a record of its own and its variables from the places `v1` to
`v20`, `which` chooses one in the initial state, and the next-state relation is
the chosen module's. The modules act on separate tables and screens, so nothing
is lost by running them side by side in one run instead of seventeen. Each is
instantiated through the module that proves things of it: `Q` is
`BackendProofs` (`Q!V` are the invites, `Q!L` the links, `Q!R` the reminders, `Q!B`
the limiters, `Q!A` the activity feed, `Q!I` the inbox, `Q!K` the promise card,
`Q!Score` the consistency) and `G` is `FrontendProofs` (`G!M` meditation, `G!P` push,
`G!F` friends, `G!H` the habit form, `G!W` the wizards, `G!O` the reorder modes,
`G!E` the celebration, `G!C` the completions, `G!T` the todos). `MCScreens` gives the
records their values for TLC. `Lists` has the operations on lists that these
modules use; they are restated there, and not taken from `SequencesExt`, because
every instance would bring all of that module before the provers.
The properties of `Screens` group
those of the modules:

| property of `Screens` | properties of the modules |
|---|---|
| `Truthful` | `Completions`, `Todos`, `Links`, `PromiseCard`, `Inbox`, `Circle` `!Truthful`; `Feed!NoGaps`, `Feed!RowsFollow`; `Celebration!NoneMissed`, `!ErrorIsItsOwn` |
| `SavedAsMeant` | `Ordering!SavedAsMeant`, `HabitForm!SavedAsSubmitted` |
| `DoneOnce` | `HabitForm!OneHabit`, `Wizards!SetOnce`, `Circle!OneAnswer`, `Celebration!CelebratedOnce` |
| `OnlyShared` | `Links!OnlyShared` |
| `TimeCounts` | `Meditation!TimeKept`, `!MarkedWasLogged`; `Reminders!OncePerDay`, `!KeptEachDay` |
| `SettingsAreTrue` | `Push!SwitchIsTrue`, `!SettingsAreTrue` |
| `InvitesHonoured` | `Invites!ClaimIsWhole`, `!PageIsRight`, `!OnlyDeletionsDeadlock` |
| `LimitsHold` | `Invites!CapHolds`; `Limiter!BurstIsBounded`, `!RefusedForCause` |
| `ScoreIsTrue` | `Consistency!ScoreCounts`, `!LoggingHelps`, `!OnlyWindowCounts`, `!RangeAgrees` |

`MCChallenges`, `MCFriendships`, `MCPromises`, `MCSession`, `MCNavigation` and
`MCCircle` give one module each its payloads, symmetry and constraints.
`MCFriendships` and `MCPromises` add the history variable `alone`: no two
requests have been in flight at once so far.

Definitions called `X_Something`, under the comment "Faulty variant", are
deliberately wrong versions of `X`, used by no specification: replacing `X` by
such a variant makes the property named with it in `PROJECT.json` fail, which
shows that the property is sensitive to that piece of the code.

## 3. Runs

Eight runs pass, four show a disagreement (states are distinct states found).

| run | bounds | shows |
|---|---|---|
| `MCChallengesRace` | 2 requests, 2 challenges of 2 creators, one of which ends after a day and can be created again (589 k states) | `MilestoneHonoured`, `CompletedIsAnnounced`, `OneActivePerTriple`, `RewardIsSafe` under all interleavings of engines, create, claim, cancel, deletion |
| `MCChallengesSerial` | 1 request, every milestone type, lists of Active and of Expired rows (398 k) | `TypeOK`, `DatesWereLogged`, `ListedAsFiltered`, refinement of `ChallengeLifecycle` |
| `MCChallengesFair` | 2 requests, 2 rows that every completion writes, no symmetry (79 k) | `RequestsFinish` |
| `MCFriendshipsAll` | 2 users, 3 requests, every operation, 4 row ids (427 k) | `TypeOK`, `BothWilling`, `ClaimsNeverDeadlock`, `BeginsMutual`, `OrderlyWhenAlone` |
| `MCPromisesRace` | 1 habit, 2 requests, 3 days, 2 promises (801 k) | `TypeOK`, `JudgedWhenOver`, `PromiseHasHabit`, `InStepWhenAlone`, refinement of `PromiseLifecycle` |
| `MCSession` | 2 users on the web of whom one uses this page, 2 calls, 1 retry, 2 token pairs, another tab, reloads, lost messages (1.1 M) | `TypeOK`, `WriteOnce`, `WaitersHaveRefresh`, `SessionRestorable`, `CallsSettle` |
| `MCNavigation` | 3 overlays, 5 history entries, 2 traversals at once, 1 waiting click, devices with and without the flags of older versions (408 k) | `TypeOK`, `HistoryInStep`, `BackStaysInside`, `SuppressMatches`, `InviteNotForgotten`, `ClaimSettles` |
| `MCScreens` | seventeen instances, see below (1.8 M together) | the properties of the table above |

The instances in `MCScreens`:

| instance | bounds | states |
|---|---|---|
| `Completions` | 2 calls, 2 taps, 1 failure or change elsewhere | 165 k |
| `Ordering` | 3 items, 3 edits, 2 events | 105 k |
| `Todos` | 2 rows, 2 calls, 2 taps, 1 event | 252 k |
| `Meditation` | 1 or 2 minutes, clock to 4, 1 event | 93 k |
| `Reminders` | 7 slots a day, window 2, gap 3, reminder at slot 3 or 6, 3 days, 2 events | 67 k |
| `Push` | 2 users of a browser, 2 switchings, 2 updates, 2 subscriptions, 6 steps of the user of which 1 may be a failure | 49 k |
| `HabitForm` | 2 texts, 2 presses, 1 edit, 1 event | 86 k |
| `Wizards` | 2 habits, 2 rewards, cap 2, 2 sends, 3 edits, 1 event | 113 k |
| `Links` | 2 links of which one exists at first, 1 habit, 2 calls at once, 2 taps, 1 event, native | 216 k |
| `PromiseCard` | 3 flows at once, 4 taps, 1 event | 24 k |
| `Inbox` | 2 to 3 notifications, pages of 1, 2 calls, 2 taps, 2 events | 167 k |
| `Circle` | 2 people, 2 calls, 3 taps of which 1 may be a failure or a change elsewhere, native | 145 k |
| `Invites` | 2 users, 2 invites, 2 requests, cap 1, expiry after 1 day, 4 requests in all | 108 k |
| `Consistency` | every history of a window of 5 days with weeks of 3, daily, weekly and custom, 6 days | 44 k |
| `Feed` | page 1, batches of 2, 2 batches a page, 3 pages, 3 times with entries at first, habits or a new friendship, 2 events | 49 k |
| `Celebration` | 2 users, 2 challenges, 3 taps, 2 events | 71 k |
| `Limiter` | 1 address, 2 requests at once, limits 1 and 2, window 2, scavenging every 3, 5 requests | 57 k |

Why these bounds are enough. The races of the backend are between two requests
over one or two rows: two requests give every pair of handlers, two rows give
lock cycles, a second challenge or promise of the same key gives the
unique-index cases, and a clock of two or three days separates "before the
end", "on the end date" and "after it" with a skewed local date. The races of
the client are between a call, the fetch after it and a second call or a change
made elsewhere: two calls and one event give each order of sending, handling,
answering and fetching; a failure in a rollback's snapshot needs a second call
that changed the same list. The score's window is shortened together with the
week, so that the window begins and ends inside a week and both edges of a
backfill occur. `Feed` needs three entries for a page to end inside a batch.
The bounds are the `Max...` constants, which occur in guards only. Requests are
interchangeable, so the safety runs over the tables use their symmetry, and
`MCScreens` that of the two calls `m1` and `m2`; the liveness runs do not.
`MCSession` has one too: only one user signs in on this page, anybody in the other
tab (`HereInit`), and the other tab does nothing more once it has ended the session of
this page or begun another's, until the page is loaded again (`Bound`); the
theorems of `SessionProofs` are without these bounds. `MCNavigation` has one
constraint: what the app does after its history has lost
track is not explored further, and on a device with old flags the overlays are
left aside. Deadlock checking is off because every
instance stops once its bounds are used up and nothing is under way.

**Fairness.** `Challenges!FairSpec`: strong fairness of each accepted request's
own steps. Go schedules every runnable goroutine and PostgreSQL's lock queue is
first come, first served, so a step that is possible again and again (the lock
it waits for is released again and again) is taken; deadlock detection is one of
these steps. `Session!FairSpec`: weak fairness of what the event loop delivers
(`FinishRefresh`, `Retry`, `Receive`) and of every connection to be answered or
broken (`Handle` or `Unauthorized`; `HandleRefresh` or `LoseRefresh`).
`Navigation!FairSpec`: weak fairness of React's effects, the read of local
storage, the `popstate` of a traversal that was begun, and the answer to the
claim. Nothing is assumed of users or clients: no request has to arrive, no tap
has to happen, and no failure has to.

### Where the code and its documentation disagree

Four runs each check one sentence of the repository and TLC finds a
counterexample.

* `MCChallengesClaimTwice`: an engine holds a row it read as Active; meanwhile
  another completes it and it is claimed; the first engine writes `Completed`
  back by id, and a second claim succeeds (`challenges/store.go:132-134`).
* `MCFriendshipsOneSided`: a removal's DELETE waits for the row an accept has
  updated but does not see the reverse row, which survives
  (`social/crossmodule.go:35-37`).
* `MCPromisesLate`: a promise inserted while its habit is being archived stays
  Active (`habits/promise_archive_integration_test.go:3-6`).
* `MCCircleCancel`: the app withdraws an outgoing request through the endpoint by
  which a recipient declines, which refuses the sender (`hooks/useFriends.ts:97`,
  `screens/FriendsScreen.tsx:91`).

Others are in the models without a run of their own; the property that excepts
them, or the action that shows them, is in the module named.

* `Challenges`: the engine whose older status overwrites a reached reward can also
  write Active over Completed; the reward that was announced can then be cancelled
  or lapse (`RewardIsSafe` excepts the challenges in `reverted`). `List` reads the
  clock again for the display (`challenges/service.go:157`, `:184`): a challenge
  listed as Active may be shown as expired.
* `Friendships`: two users who request each other at once both stay Pending
  (`social/service.go:109-116`). An accept whose request is declined after its
  look-up ends in a 500 where `social/service.go:152-155` says not found.
* `Promises`: a visibility row written after the archive stays
  (`migrations/0005_social.up.sql:19-20`).
* `Invites`: overlapping creations pass the cap together; expired invites that
  nobody revoked count towards it (`challenges/invite_service.go:20-27`). A claim
  and the deletion of the creator's account can wait for each other. A deletion
  that races a claim leaves rows of a deleted account (so do `Create` and the
  engine, `challenges/service.go:458`).
* `Links`: update and rotate of a link revoked in between answer with success;
  a visit that was let in goes on though the link is revoked, and shows what is put
  on its list even then; a late answer closes the dialog of another link.
* `Feed`: the two entries of a friendship have one `created_at`, and the cursor
  `created_at < $2` has no tie-break: a page that ends between them skips one.
  After five batches that were all hidden the feed says it has ended. A
  friendship made again after a removal is not announced. Handlers of
  `VisibilityChanged` that are lost or overtaken leave entries hidden; narrowing
  from public to friends hides them from friends too.
* `Limiter`: "up to 2x the limit" (`limiter.go:7-9`) can be exceeded when
  requests read the clock before the lock and take the lock in another order;
  a refusal may then lack cause.
* `Consistency`: the comment at `consistency.go:14-15` says half to even, `round1`
  rounds half away from zero; `consistency_test.go:950-952` says future dates are
  listed in the UTC view, `service.go:719-733` clamps them. Logging a date before
  the score's start can lower the score. The flame's asymmetric thresholds
  (`consistency.go:350-354`) are dormant, no caller passes a previous level: only the
  rising ones are modelled, and a level may flicker at a threshold. The model rounds
  exactly; floating
  point gives one tenth less in three cases (40 units with weights summing to
  11.5, 20.5 or 25.5).
* `Reminders`: a change to summer time that skips more than the catch-up window
  is not made up for (`reminders.go:50-52`); a window that wraps past midnight
  uses the next date's key; a push that was sent and not marked is sent again. When
  everything due was logged in the window and a completion is taken back, or a
  habit made due, after it (`habits/service.go:784`), the day has no reminder.
* `Push`: an unsubscription that ends late undoes a newer subscription; two
  updates of the settings that overlap lose one; after sign-out the former
  user's pushes still arrive (`SettingsScreen.tsx:458`).
* `Session`: after "Session expired. Please sign in again." (`client.ts:117`) the
  web client still counts as signed in. A form submitted twice for two users, or
  a refresh that outlives the session it was begun in and meets the next user's
  sign-in, leaves the client with the tokens of one and the screen of the other,
  or without tokens. When another tab signs out, deletes the account or signs in as
  somebody else, this page goes on showing its user until its access token ends; its
  next refresh is then refused, or makes it act as the other tab's user.
* `Navigation`: on a device with flags of older versions the claim's screen never
  goes away (`RootNavigator.tsx:284`); a saved form closes two overlays
  (475-480); signing out from the settings keeps the overlay stack; Forward is
  taken for Back.
* `Completions`: a conflict is not followed by a fetch (`useTodayHabits.ts:241`).
  `Ordering`: an id that vanished is a 400, so the retry never applies. `Todos`: a
  completion and its undoing overtake each other, and the exit timer removes a
  row that is open again. `Meditation`: the sheet marks a row as logged although
  the log failed (`MeditationLogSheet.tsx:107`).
* `HabitForm`: the button is locked during the first half of a submission only,
  so a press during the second makes a second habit
  (`CreateHabitScreen.test.tsx:848`); a failed second half resets the form;
  "defaulted to private" (`CreateHabitScreen.tsx:220`) is said where the account's
  default applies (`social/service.go:74-82`).
* `Wizards`: the share message is made from the draft as it is now; leaving and
  coming back allows a second creation; `Alert.alert` does nothing on the web.
* `PromiseCard`: loads overlap and the last answer wins. `Inbox`: reading a further
  page drops a fetch of the list for good; the rollback of a failed mark restores
  another notification's flag; the badge overshoots after a poll. `Circle`: one
  `sendingId` for all rows; removing a former friend deletes that person's new
  request.
* `Celebration`: the error of a claim is shown over the next challenge, or the
  next account, when the first was dismissed meanwhile
  (`useChallengeCompletion.ts:96-102`); "Later" pressed before a claim is rendered
  drops the next challenge unseen. A challenge completed before the first poll,
  or put off with "Later", cannot be claimed in the app (`useClaimChallenge` is
  used nowhere).

## 4. Proofs

Eight modules hold the theorems. Each theorem is about every value of the
constants; the only assumptions are the named `ASSUME`s of the modules, which
TLC evaluates in the runs, and those a theorem states itself. The theorems of
`BackendProofs` and `FrontendProofs` state theirs (`InviteNumbers`, `CapNumbers`,
`Slots`, `Limits`, `FeedNumbers`, `NoteNumbers`, `ScoreNumbers`, `Durations`, `HintsDue`,
`Endpoints`, `SomeTexts`, `Goals`, `OrderItems`, `CelebratedOnes`, `TodoBound`: that a
number is a number, a list is finite, a window and a limit are not zero, that a
form has some text to start with), and `ScreensProofs` derives each of them from
the `ASSUME`s of `Screens`. The one that says more is `ScoreNumbers`, that a window
has fewer than 1000 days; the code's has 60.

`FriendshipsProofs`:

* `TypeCorrect`, from `TypeInv`: `TypeOK` plus, for every value of `pc`, what the
  request's working variables then hold (`PhaseOK`). Without `PhaseOK` the type
  is not inductive: a write is typed only because the direction it works on is.
* `ClaimsAreDeadlockFree`: a claim at its first upsert holds nothing, one at its
  second holds only the lower-ranked direction and wants the higher one, so
  every member of a cycle wants a row that only a claim at its commit can hold,
  and such a claim waits for nobody.
* `FriendshipIsMutual`: `WillingInv` carries the consent behind every Pending and
  Accepted row, every uncommitted version and every read that will be acted on.
* `FriendshipBeginsMutual`: `MutualInv` says that what a transaction is about to
  install is either all removals or Accepted in both directions, so a step that
  makes one direction Accepted makes the other so too. It holds for every
  operation.
* `FriendshipIsSymmetric`, for systems without decline and remove
  (`NothingRemoves`); with them it is false, see `MCFriendshipsOneSided`. `PairInv`
  says that a transaction that holds one direction as Accepted either holds its
  reverse too or is on its way to it.
* `OrderlyAlone`, about `MCFriendships`: as long as requests do not overlap,
  friendships are symmetric and no two requests face each other, every operation
  included. `AloneInv` says that what the one request in flight has read is still
  true of the tables.

`PromisesProofs`: `TypeCorrect`, `JudgementWaits`, `NoOrphanPromise` from one
inductive invariant `IInv` (types, what an open transaction holds, what a pending
read says about the row it names, and the two properties themselves), and
`PromiseLives`: every step of `Promises` is a step of `PromiseLifecycle` or leaves
its variables alone. The case that needs the invariant is two resolutions of one
promise; the guard of the UPDATE makes the second a stutter. `InStepAlone`, about
`MCPromises`, is `OrderlyAlone`'s counterpart.

`ChallengesProofs`, from six inductive invariants, each resting on the ones
before:

* `TypeInv` gives `TypeCorrect`: `TypeOK` plus, for every `pc`, what the request's
  job, snapshot and writes then hold.
* `ListInv` gives `ListAlwaysAsFiltered`: what a list has found passed the filter at
  the clock of the request's beginning, and the clock has not gone back since.
* `BatchInv` gives `MilestoneAlwaysHonoured`, `DatesAlwaysLogged`,
  `CompletionIsAnnounced`. The engine
  computes from a row it read earlier and writes six columns of it over whatever
  is there, so `RowConsistent` of the committed rows alone is not inductive. The
  invariant says it of each version of a row: the committed one (`RowOK`), the one
  read (`ReadOK`: Active, of this habit and recipient, and with the columns that
  never change, `Fixed`, equal to the committed ones) and the uncommitted one
  (`WriteOK`: only Active or Completed, and announced if completed). The
  overwrite is harmless because the columns `RowConsistent` relates are all in one
  SET list; leave `completion_count` out of the SET list and `OverwriteIs` fails.
* `RewardInv` gives `RewardStaysSafe`: a row that was announced is reached unless it
  is in `reverted`, and an announcement held back by a transaction is about a row
  which that transaction has written as reached (`HeldOK`). So every step that
  takes a status away either found the row Active or is the engine's commit, which
  records it.
* `UniqueInv` gives `OneActiveAlways`. It is about every row that is Active or
  would be if some open transaction committed (`MayBeActive`). A transaction never
  waits for itself, so two rows it writes Active itself need another argument:
  the rows it read were Active at once, hence of different triples (`ApartOK`).
* `SerialInv` gives `LifeIsKept`: for requests that do not overlap, `Challenges`
  implements `ChallengeLifecycle`. What the engine read is then still what the
  table holds, so what it wrote only adds to an Active row's dates and keeps its
  baseline. `RowStep` names what a step may make of one row, and which step of its
  life that is; its cases are every action that writes the table. With two
  requests `SerialInv` fails, and `MCChallengesClaimTwice` shows that the
  lifecycle does too.

`SessionProofs`:

* `TypeCorrect`, `WriteIsOnce`, `NobodyWaitsForNothing`. The invariant behind the
  second, `EffectOK`: a call that has had its effect has been answered, by
  anything but a 401, while only a 401 is waited for and sent again and only a
  read is retried. A waiter has a refresh because the step that ends a refresh
  answers all who wait (`WakeInv`).
* `SessionIsKept`, that a signed-in client can refresh as its own user, from
  `KeptInv`. `SessionRestorable` speaks of quiet moments only, so the invariant
  has to say where the session is while something is under way. `Apart`: a pair
  that is on its way is in one place, and not in use yet. `OneOwner`: all tokens
  that the client holds, presents or is about to be given are of one user, the
  one it shows. `Alive`: the client's token is live, or a live one is on its way;
  on native, where no other tab rotates, a refresh without an answer presents a
  live token. The last two hold until something was `spoiled`, and `Alive` also
  gives way once the server has carried out a sign-out or a deletion of which the
  client does not know yet (`Ended`). What another tab does to the session
  of this page is `spoiled` in the same step, so the invariant owes nothing there; that
  a cookie on its way to be cleared is such a case is `Cleared`. The proof found one case the property had
  not excepted: a sign-in that is answered while a refresh of another user's
  session is on its way (`Overtaken`); the refresh then replaces the tokens of
  the user who signed in, or on native without a token its rejection clears them.

`NavigationProofs`: `TypeInvariant`, `HistoryStaysInStep`, `BackNeverLeaves`,
`SuppressedAreClosing` and `InviteIsHonoured` from `NavInv`, for any number of
overlays, entries, traversals and clicks. The properties speak of a history that
has settled (but for `SuppressMatches`), so the invariant describes the queue of
traversals: those of `closeAll` come first and are as many as are suppressed,
then single steps back (`Queue`); a tab change that waits begins at the tab the
history stands at and ends at the one shown (`Place`); and wherever the closing
traversals lead, one after the other, there is an entry below for every overlay
and for the tab (`Room`). That place is a sum over a queue of any length. It is
not computed: `Room` says that a function exists which gives the position after
each of them. That several waiting clicks are replayed in one go is an induction
on their number, see the end of this section.

`BackendProofs`:

* Invites. `ClaimsAreWhole` from `Inv` (`Shape`, `OneClaim`, `RequestOK`,
  `ClaimIsWhole`): a claim is all or nothing because the invite's lock has one
  holder, because what the holder has written for it is a function of its `pc`,
  and because no other request writes a row named after that invite. A deletion
  takes rows away in pieces, which is why the property excepts accounts that are
  going. `ClaimsAreDeadlockFree`: a claim past its friendship waits for nothing,
  and one before it holds only the invite, so a circle of claims and revocations
  would need a member that both holds and waits; only a deletion does.
  `PageAlwaysRight` needs the types. `CapIsKept` from `CapInv`: as long as the
  creations of a user do not overlap, at most one has counted and not inserted,
  and what it counted is still below the cap.
* Links. `VisitorSeesOnlyShared` from `LinkInv`: the visit's leave covers what its
  next read may find (`Covered`); a statement that changes a row widens the leave
  by it only while the address is good or the visitor has been let in, so what a
  late write puts on a revoked link or behind an old address must not be found. The
  invariant says that it is not: a link that was ever revoked stays so (`gone`),
  and an address never returns. The case that needs more is a creation: it may not overwrite a link a
  visitor is at, so the invariant says that a creation on its way is the only one
  and its link is not there (`MadeOnce`). `LinksListIsTrue` from `LinksTrue`: while
  no call is in flight and the client is not blind, the list, or the fetch that
  will replace it, is the links that live; whatever changes a link is in flight or
  made the client blind, and a call that has ended is followed by a fetch.
* Reminders. `PushedOncePerDay`, because the row is the idempotency key and a push
  that was not marked is counted. `ReminderEachDay`, from `KeptInv`: a date at whose reminder slot the
  scheduler has been (`Over`) and that nothing excuses has a row. Completions come
  and go between the passes; what counts is what each pass found. Its arithmetic
  is that of a date and the slot in it: `Slot(d)` lies in date `d`, so it is behind
  once the date is.
* Limiter. `BurstsBounded` and `RefusalsHaveCause` from `LimiterInv`. `passed`
  counts, for every later time, the requests let through before it, so what
  passed in an interval is the difference of two counts. As long as the limiter
  met times in order, what passed since a bucket began is what it counts, and in
  the window before it no more than the limit passed (`Fits`).

* Feed. `FeedHasNoGaps` from `FeedInv`: the pages are in order (`InOrder`) and hold
  every visible row that no event touched meanwhile, down to the oldest one shown
  (`Whole`), except at the times where a page or a batch ended. A request reads
  rows in batches and judges them with settings read in between, so the invariant
  follows it (`Working`): what it has loaded and judged is right down to its
  cursor. What is done elsewhere only adds to the rows touched (`ServerKeeps`).
  `RowsFollowEvents` from `Restored`: while her habit is public and no event was lost
  or overtaken, its entries are shown, or a "widened" with no "narrowed" after it
  is still to be handled (`Awaited`); the two entries of a friendship come and go
  together (`Bonded`).
* Inbox. `InboxIsTrue` from `InboxInv`. While no call is under way but one that was
  sent alone and of which the server has not heard (`InHand`, `Quiet`), what that
  call overwrote, or what is shown if there is none, is what the server has, and so
  are the pages a fetch has read (`ListTrue`); the badge is at most that call's own
  mark away (`BadgeTrue`). So a rollback restores something true.
* Promise card. `CardShowsPromise` from `CardInv`: loads overlap, each has its own
  number (`LoadsApart`), and unless a change that was made still owes its load
  (`Owed`), what the load begun last brings, or brought, is true (`LastIsTrue`).
* Consistency. `ScoreAlwaysTrue`: the four properties of the score follow from the
  types alone, for every window below 1000 days and every length of a week. A
  weight is one half for a unit kept at least minimally and another half for one
  kept in full, so a sum of weights is the number of the former plus the number
  of the latter (`Halves`, `HalvesOf`, `SumIs`). A bijection between the days or
  Mondays of the code and the units of the property (`DaysCount`, `WeeksCount`)
  then carries the sum over. `RoundIs` and `RoundGrows` are about rounding: a score
  is 100.0 only if every unit was kept in full and 0.0 only if none was kept, which
  is what needs fewer than 1000 units. Logging a date in the window raises no
  weight but its own, and it does not move the start if it is not before it
  (`HelpsTrue`); a flame's thresholds rise with the score.

`FrontendProofs`:

* Meditation. `TimeIsKept` for any durations: what is left and what has run add up
  to the duration (`TimeInv`). `MarkedWasLogged`: an answered log was taken or
  counts as failed (`SheetInv`).
* Push. `SwitchShowsPush`: what a switching under way knows of the browser and of
  the server's tokens at each of its steps (`Stage`). `SettingsShowChoice`: an
  update under way carries what was chosen, on top of what is stored (`PutStage`).
* Friends. `OneAnswerAtATime`: every answer that was begun on this screen has its
  row locked (`Locked`). A question is asked of a free row and confirmed without
  another look at it; while it is open, which is modal, no other answer begins, so
  the row is still free (`AskedFree`). `CircleIsTrue`
  from `ShownInv`: a query that no call in flight will fetch again is true, or stale
  and not on the screen, unless it is blind (`QueriesTrue`).
* Habit form. `FormMakesOne`: beyond the habits that were lost or made in haste
  there is one, made or being made, and none while the next press would make one
  (`Counted`). `FormSavesWhatWasMeant`: what each half has saved so far, and which
  habit the retry of the second half is for (`Meant`).
* Wizards. `WizardSetsOnce`: of one opening at most one sending is on its way
  (`Own`), and what was made before it is at most what was lost.
* Reorder modes. `OrderIsAsMeant`, for lists of any length: `reapplyOrderIntent`
  is two filters put together, and a filter keeps the order of what it keeps
  (`SameOrder`), by induction on the length. If everything vanished meanwhile the
  order that is accepted is the empty one, so the property also says that the
  server took an order at all (`took`).
* Celebration. `OneCelebration`: what was queued is seen, and a challenge is
  queued when it is not, for an account that takes part in it. `NoneIsMissed` from
  `SeenInv`: what the list shows as completed is seen once the effect has run, and
  what is seen was over when the session began, waits in the queue, or was on the
  screen. `BlameIsRight` from `BlameInv`: a claim under way locks the button, and it
  and the error it leaves are about the first of the queue.
* Todos. `TodosAreTrue` from `TodoInv`. A call owes a fetch from the moment at
  which it changed something to its end (`TodoOwes`), so a list that nothing owes a fetch, and
  that is neither blind nor stale, is the server's (`ListsTrue`). A row that slides
  out of the open list is being checked or was (`ExitsSafe`), and no row is created
  twice (`TodoBirths`).
* Completions. `LogIsTrue` from `LogInv`: the same for the two caches that the habit's
  page and the day's list keep of one log (`Owes`, `LogTrue`).
* The types of all nine (`MeditationTyped`, `PushIsTyped`, `CircleTypes`, `FormTyped`,
  `WizardTyped`, `OrderTyped`, `CelebrationTypes`, `TodoTypes`, `LogTypes`).

`ScreensProofs`: `AlwaysTyped`, `AlwaysTruthful`, `AlwaysScored`, `SharedOnly`,
`CountedTime`, `TrueSettings`, `HonouredInvites`, `KeptLimits`, `MeantIsSaved` and
`OneEffect` are all the properties that `MCScreens` checks. A behaviour of `Screens`
in which a module was chosen is a behaviour of that module (the `...Life` lemmas),
so it has what is proved of it.

Induction over data. The library's induction theorems take an operator as their
parameter, which the installed provers cannot instantiate. Where an induction was
needed it is over a set: a set of numbers that holds 0 and the successor of each
of its members is all of them, because its complement would have a least element
(`SetInduction` in `NavigationProofs`, from the library's `WFMin` and
`NatLessThanWellFounded`). The functions inducted over are recursive functions
(`Lists!Filter`, `Navigation!Replay`), whose definition the provers can expand;
they cannot expand `SelectSeq`. The score's sum is a fold of the community
modules (`SumFunction`); its definition is a recursive function on the subsets of
the days, and among the subsets on which it were not the sum there would be one of least
size (`SumIs`).

Model-checked only: liveness (`RequestsFinish`, `CallsSettle`, `ClaimSettles`) and
the statements about `ENABLED` behind it, which TLAPS does not reach; and the four
disagreements of section 3, which are counterexamples. Every safety invariant and
every action property of the passing runs is proved for all values of the
constants, under the assumptions above.

## 5. Not modelled, and the plan

* Public flame pages, profiles and the export only read, in several statements
  without a transaction; they show what was true at different instants and keep
  nothing.
* `createHabit`'s position and two reorders of one user inside the database
  (`habits/store.go:64`, `:545`): a duplicate position or an aborted reorder that
  the client retries; `Ordering` has the client's side.
* `HabitCompleted` is lost when its handler fails after the commit
  (`habits/service.go:479`), as an action of `Challenges`, without a property:
  nothing in the code says when the count is made good.
* The polling for the row of an event's transaction before a push
  (`notifications/push.go:238`) and the fan-out of friend requests; the change
  of a password; the viewer's filter of profile pages.
* The other screens show what one query returned, or are a form over one row.
* Password hashing, static files, configuration, layout and wording.

Next in order: the fan-out with its detached delivery against the emitting
transaction; password change with the revocation of all refresh tokens; positions
under concurrent reorders.
