----------------------------- MODULE ScreensProofs -----------------------------
(***************************************************************************)
(* Theorems about the screens and jobs as the run MCScreens checks them:   *)
(* a behaviour of Screens is a behaviour of the module that was chosen, so *)
(* it has what BackendProofs and FrontendProofs prove of that module.      *)
(***************************************************************************)
EXTENDS Screens, TLAPS
-----------------------------------------------------------------------------
(* What is assumed of the constants is what those modules assume.          *)

LEMMA Assumed ==
  /\ Q!InviteNumbers /\ Q!CapNumbers /\ Q!Slots /\ Q!Limits /\ Q!FeedNumbers /\ Q!NoteNumbers
  /\ Q!LastScore /\ Q!ScoreNumbers
  /\ G!Durations /\ G!HintsDue /\ G!Endpoints /\ G!OrderItems /\ G!CelebratedOnes /\ G!SomeTexts
  /\ G!Goals /\ G!TodoBound
<1>1. Q!InviteNumbers /\ Q!CapNumbers
  BY InvitesAssumption DEF Q!InviteNumbers, Q!CapNumbers, Q!IsFiniteSet, IsFiniteSet
<1>2. Q!Slots
  BY RemindersAssumption DEF Q!Slots
<1>3. Q!Limits
  BY LimiterAssumption DEF Q!Limits
<1>4. G!Durations /\ G!HintsDue
  BY MeditationAssumption DEF G!Durations, G!HintsDue
<1>5. G!Endpoints /\ G!OrderItems /\ G!CelebratedOnes
  BY FiniteAssumption DEF G!Endpoints, G!OrderItems, G!CelebratedOnes, G!IsFiniteSet, IsFiniteSet
<1>6. G!SomeTexts /\ G!Goals
  BY FormsAssumption DEF G!SomeTexts, G!Goals
<1>7. Q!FeedNumbers
  BY FeedAssumption DEF Q!FeedNumbers
<1>8. Q!NoteNumbers /\ Q!LastScore /\ Q!ScoreNumbers /\ G!TodoBound
  BY NumbersAssumption DEF Q!NoteNumbers, Q!LastScore, Q!ScoreNumbers, G!TodoBound
<1> QED
  BY <1>1, <1>2, <1>3, <1>4, <1>5, <1>6, <1>7, <1>8
-----------------------------------------------------------------------------
(* The life of each module that was chosen.                                *)

LEMMA MeditationLife == Spec /\ which = "meditation" => G!M!Spec
<1>1. Init /\ which = "meditation" => G!M!Init
  BY DEF Init
<1>2. which = "meditation" /\ [Next]_vars => (which = "meditation")' /\ [G!M!Next]_(G!M!vars)
  BY DEF Next, vars, G!M!vars, G!M!timer, G!M!log, G!M!server
<1> QED
  BY <1>1, <1>2, PTL DEF Spec, G!M!Spec

LEMMA RemindersLife == Spec /\ which = "reminders" => Q!R!Spec
<1>1. Init /\ which = "reminders" => Q!R!Init
  BY DEF Init
<1>2. which = "reminders" /\ [Next]_vars => (which = "reminders")' /\ [Q!R!Next]_(Q!R!vars)
  BY DEF Next, vars, Q!R!vars, Q!R!pushed
<1> QED
  BY <1>1, <1>2, PTL DEF Spec, Q!R!Spec

LEMMA PushLife == Spec /\ which = "push" => G!P!Spec
<1>1. Init /\ which = "push" => G!P!Init
  BY DEF Init
<1>2. which = "push" /\ [Next]_vars => (which = "push")' /\ [G!P!Next]_(G!P!vars)
  BY DEF Next, vars, G!P!vars, G!P!push, G!P!reminder
<1> QED
  BY <1>1, <1>2, PTL DEF Spec, G!P!Spec

LEMMA HabitFormLife == Spec /\ which = "form" => G!H!Spec
<1>1. Init /\ which = "form" => G!H!Init
  BY DEF Init
<1>2. which = "form" /\ [Next]_vars => (which = "form")' /\ [G!H!Next]_(G!H!vars)
  BY DEF Next, vars, G!H!vars, G!H!query, G!H!screen, G!H!counts
<1> QED
  BY <1>1, <1>2, PTL DEF Spec, G!H!Spec

LEMMA WizardsLife == Spec /\ which = "wizards" => G!W!Spec
<1>1. Init /\ which = "wizards" => G!W!Init
  BY DEF Init
<1>2. which = "wizards" /\ [Next]_vars => (which = "wizards")' /\ [G!W!Next]_(G!W!vars)
  BY DEF Next, vars, G!W!vars, G!W!wizard, G!W!server, G!W!query, G!W!counts
<1> QED
  BY <1>1, <1>2, PTL DEF Spec, G!W!Spec

LEMMA LinksLife == Spec /\ which = "links" => Q!L!Spec
<1>1. Init /\ which = "links" => Q!L!Init
  BY DEF Init
<1>2. which = "links" /\ [Next]_vars => (which = "links")' /\ [Q!L!Next]_(Q!L!vars)
  BY DEF Next, vars, Q!L!vars
<1> QED
  BY <1>1, <1>2, PTL DEF Spec, Q!L!Spec

LEMMA CircleLife == Spec /\ which = "circle" => G!F!Spec
<1>1. Init /\ which = "circle" => G!F!Init
  BY DEF Init
<1>2. which = "circle" /\ [Next]_vars => (which = "circle")' /\ [G!F!Next]_(G!F!vars)
  BY DEF Next, vars, G!F!vars
<1> QED
  BY <1>1, <1>2, PTL DEF Spec, G!F!Spec

LEMMA OrderingLife == Spec /\ which = "ordering" => G!O!Spec
<1>1. Init /\ which = "ordering" => G!O!Init
  BY DEF Init
<1>2. which = "ordering" /\ [Next]_vars => (which = "ordering")' /\ [G!O!Next]_(G!O!vars)
  BY DEF Next, vars, G!O!vars, G!O!screen
<1> QED
  BY <1>1, <1>2, PTL DEF Spec, G!O!Spec

LEMMA CelebrationLife == Spec /\ which = "celebration" => G!E!Spec
<1>1. Init /\ which = "celebration" => G!E!Init
  BY DEF Init
<1>2. which = "celebration" /\ [Next]_vars => (which = "celebration")' /\ [G!E!Next]_(G!E!vars)
  BY DEF Next, vars, G!E!vars, G!E!memory, G!E!state, G!E!history
<1> QED
  BY <1>1, <1>2, PTL DEF Spec, G!E!Spec

LEMMA LimiterLife == Spec /\ which = "limiter" => Q!B!Spec
<1>1. Init /\ which = "limiter" => Q!B!Init
  BY DEF Init
<1>2. which = "limiter" /\ [Next]_vars => (which = "limiter")' /\ [Q!B!Next]_(Q!B!vars)
  BY DEF Next, vars, Q!B!vars
<1> QED
  BY <1>1, <1>2, PTL DEF Spec, Q!B!Spec

LEMMA InvitesLife == Spec /\ which = "invites" => Q!V!Spec
<1>1. Init /\ which = "invites" => Q!V!Init
  BY DEF Init
<1>2. which = "invites" /\ [Next]_vars => (which = "invites")' /\ [Q!V!Next]_(Q!V!vars)
  BY DEF Next, vars, Q!V!vars, Q!V!tables
<1> QED
  BY <1>1, <1>2, PTL DEF Spec, Q!V!Spec

LEMMA CompletionsLife == Spec /\ which = "completions" => G!C!Spec
<1>1. Init /\ which = "completions" => G!C!Init
  BY DEF Init
<1>2. which = "completions" /\ [Next]_vars => (which = "completions")' /\ [G!C!Next]_(G!C!vars)
  BY DEF Next, vars, G!C!vars, G!C!client
<1> QED
  BY <1>1, <1>2, PTL DEF Spec, G!C!Spec

LEMMA TodosLife == Spec /\ which = "todos" => G!T!Spec
<1>1. Init /\ which = "todos" => G!T!Init
  BY DEF Init
<1>2. which = "todos" /\ [Next]_vars => (which = "todos")' /\ [G!T!Next]_(G!T!vars)
  BY DEF Next, vars, G!T!vars
<1> QED
  BY <1>1, <1>2, PTL DEF Spec, G!T!Spec

LEMMA CardLife == Spec /\ which = "card" => Q!K!Spec
<1>1. Init /\ which = "card" => Q!K!Init
  BY DEF Init
<1>2. which = "card" /\ [Next]_vars => (which = "card")' /\ [Q!K!Next]_(Q!K!vars)
  BY DEF Next, vars, Q!K!vars, Q!K!server, Q!K!hook, Q!K!counts
<1> QED
  BY <1>1, <1>2, PTL DEF Spec, Q!K!Spec

LEMMA InboxLife == Spec /\ which = "inbox" => Q!I!Spec
<1>1. Init /\ which = "inbox" => Q!I!Init
  BY DEF Init
<1>2. which = "inbox" /\ [Next]_vars => (which = "inbox")' /\ [Q!I!Next]_(Q!I!vars)
  BY DEF Next, vars, Q!I!vars
<1> QED
  BY <1>1, <1>2, PTL DEF Spec, Q!I!Spec

LEMMA FeedLife == Spec /\ which = "feed" => Q!A!Spec
<1>1. Init /\ which = "feed" => Q!A!Init
  BY DEF Init
<1>2. which = "feed" /\ [Next]_vars => (which = "feed")' /\ [Q!A!Next]_(Q!A!vars)
  BY DEF Next, vars, Q!A!vars, Q!A!server, Q!A!client
<1> QED
  BY <1>1, <1>2, PTL DEF Spec, Q!A!Spec

LEMMA ScoreLife == Spec /\ which = "score" => Q!Score!Spec
<1>1. Init /\ which = "score" => Q!Score!Init
  BY DEF Init
<1>2. which = "score" /\ [Next]_vars => (which = "score")' /\ [Q!Score!Next]_(Q!Score!vars)
  BY DEF Next, vars, Q!Score!vars
<1> QED
  BY <1>1, <1>2, PTL DEF Spec, Q!Score!Spec
-----------------------------------------------------------------------------
\* A visitor of a witness link is shown what was shared during the visit and nothing else
\* (witness_service.go), for any number of links, habits and calls under way.
THEOREM SharedOnly == Spec => []OnlyShared
<1>1. (which = "links" => Q!L!OnlyShared)
      => OnlyShared
  BY DEF OnlyShared, Is
<1>2. ~(which = "links") /\ [Next]_vars => (~(which = "links"))'
  BY DEF Next, vars
<1>3. Q!L!Spec => [](Q!L!OnlyShared)
  BY Q!VisitorSeesOnlyShared, PTL
<1> QED
  BY <1>1, <1>2, <1>3, LinksLife, PTL DEF Spec
-----------------------------------------------------------------------------
\* The meditation timer counts the time it ran and marks a habit whose log was accepted
\* (MeditationScreen.tsx), for every duration; a reminder is pushed once a day and on each day
\* that needs it (reminders.go), for every length of the day, the window and the pauses.
THEOREM CountedTime == Spec => []TimeCounts
<1>1. (/\ (which = "meditation" => G!M!TimeKept /\ G!M!MarkedWasLogged)
       /\ (which = "reminders" => Q!R!OncePerDay /\ Q!R!KeptEachDay))
      => TimeCounts
  BY DEF TimeCounts, Is
<1>2. ~(which = "meditation") /\ [Next]_vars => (~(which = "meditation"))'
  BY DEF Next, vars
<1>3. ~(which = "reminders") /\ [Next]_vars => (~(which = "reminders"))'
  BY DEF Next, vars
<1>4. G!M!Spec => [](G!M!TimeKept /\ G!M!MarkedWasLogged)
  BY G!TimeIsKept, G!MarkedWasLogged, Assumed, PTL
<1>5. Q!R!Spec => [](Q!R!OncePerDay /\ Q!R!KeptEachDay)
  BY Q!PushedOncePerDay, Q!ReminderEachDay, Assumed, PTL
<1> QED
  BY <1>1, <1>2, <1>3, <1>4, <1>5, MeditationLife, RemindersLife, PTL DEF Spec
-----------------------------------------------------------------------------
\* The push switch and the reminder settings show what the browser and the server have, for
\* any accounts, endpoints and calls (usePushNotifications.ts, SettingsScreen.tsx).
THEOREM TrueSettings == Spec => []SettingsAreTrue
<1>1. (which = "push" => G!P!SwitchIsTrue /\ G!P!SettingsAreTrue)
      => SettingsAreTrue
  BY DEF SettingsAreTrue, Is
<1>2. ~(which = "push") /\ [Next]_vars => (~(which = "push"))'
  BY DEF Next, vars
<1>3. G!P!Spec => [](G!P!SwitchIsTrue /\ G!P!SettingsAreTrue)
  BY G!SwitchShowsPush, G!SettingsShowChoice, Assumed, PTL
<1> QED
  BY <1>1, <1>2, <1>3, PushLife, PTL DEF Spec
-----------------------------------------------------------------------------
\* A claimed invite made one friendship, habit and challenge and another made nothing, its page
\* offers what a claim would take, and only the deletion of an account can be in a deadlock,
\* for any number of users, invites and requests (invite_service.go).
THEOREM HonouredInvites == Spec => []InvitesHonoured
<1>1. (which = "invites" => Q!V!ClaimIsWhole /\ Q!V!PageIsRight /\ Q!V!OnlyDeletionsDeadlock)
      => InvitesHonoured
  BY DEF InvitesHonoured, Is
<1>2. ~(which = "invites") /\ [Next]_vars => (~(which = "invites"))'
  BY DEF Next, vars
<1>3. Q!V!Spec => [](Q!V!ClaimIsWhole /\ Q!V!PageIsRight /\ Q!V!OnlyDeletionsDeadlock)
  BY Q!ClaimsAreWhole, Q!PageAlwaysRight, Q!ClaimsAreDeadlockFree, Assumed, PTL
<1> QED
  BY <1>1, <1>2, <1>3, InvitesLife, PTL DEF Spec
-----------------------------------------------------------------------------
\* The cap of open invites holds for creations that do not overlap (invite_service.go), and a
\* rate limiter passes no burst beyond twice its limit and refuses only for cause
\* (limiter.go), for every cap, limit and window.
THEOREM KeptLimits == Spec => []LimitsHold
<1>1. (/\ (which = "invites" => Q!V!CapHolds)
       /\ (which = "limiter" => Q!B!BurstIsBounded /\ Q!B!RefusedForCause))
      => LimitsHold
  BY DEF LimitsHold, Is
<1>2. ~(which = "invites") /\ [Next]_vars => (~(which = "invites"))'
  BY DEF Next, vars
<1>3. ~(which = "limiter") /\ [Next]_vars => (~(which = "limiter"))'
  BY DEF Next, vars
<1>4. Q!V!Spec => [](Q!V!CapHolds)
  BY Q!CapIsKept, Assumed, PTL
<1>5. Q!B!Spec => [](Q!B!BurstIsBounded /\ Q!B!RefusedForCause)
  BY Q!BurstsBounded, Q!RefusalsHaveCause, Assumed, PTL
<1> QED
  BY <1>1, <1>2, <1>3, <1>4, <1>5, InvitesLife, LimiterLife, PTL DEF Spec
-----------------------------------------------------------------------------
\* What was saved is what the user saw when it was saved: the order, for lists of any length
\* (TodayScreen.tsx), and the habit (CreateHabitScreen.tsx).
THEOREM MeantIsSaved == Spec => []SavedAsMeant
<1>1. (/\ (which = "ordering" => G!O!SavedAsMeant)
       /\ (which = "form" => G!H!SavedAsSubmitted))
      => SavedAsMeant
  BY DEF SavedAsMeant, Is
<1>2. ~(which = "ordering") /\ [Next]_vars => (~(which = "ordering"))'
  BY DEF Next, vars
<1>3. ~(which = "form") /\ [Next]_vars => (~(which = "form"))'
  BY DEF Next, vars
<1>4. G!O!Spec => [](G!O!SavedAsMeant)
  BY G!OrderIsAsMeant, Assumed, PTL
<1>5. G!H!Spec => [](G!H!SavedAsSubmitted)
  BY G!FormSavesWhatWasMeant, PTL
<1> QED
  BY <1>1, <1>2, <1>3, <1>4, <1>5, OrderingLife, HabitFormLife, PTL DEF Spec
-----------------------------------------------------------------------------
\* One intention has one effect, for any number of presses, calls and people: one habit
\* (CreateHabitScreen.tsx), one challenge (CreateChallengeScreen.tsx), one call that answers a
\* request (FriendsScreen.tsx), one celebration (useChallengeCompletion.ts).
THEOREM OneEffect == Spec => []DoneOnce
<1>1. (/\ (which = "form" => G!H!OneHabit)
       /\ (which = "wizards" => G!W!SetOnce)
       /\ (which = "circle" => G!F!OneAnswer)
       /\ (which = "celebration" => G!E!CelebratedOnce))
      => DoneOnce
  BY DEF DoneOnce, Is
<1>2. ~(which = "form") /\ [Next]_vars => (~(which = "form"))'
  BY DEF Next, vars
<1>3. ~(which = "wizards") /\ [Next]_vars => (~(which = "wizards"))'
  BY DEF Next, vars
<1>4. ~(which = "circle") /\ [Next]_vars => (~(which = "circle"))'
  BY DEF Next, vars
<1>5. ~(which = "celebration") /\ [Next]_vars => (~(which = "celebration"))'
  BY DEF Next, vars
<1>6. G!H!Spec => [](G!H!OneHabit)
  BY G!FormMakesOne, PTL
<1>7. G!W!Spec => [](G!W!SetOnce)
  BY G!WizardSetsOnce, PTL
<1>8. G!F!Spec => [](G!F!OneAnswer)
  BY G!OneAnswerAtATime, PTL
<1>9. G!E!Spec => [](G!E!CelebratedOnce)
  BY G!OneCelebration, Assumed, PTL
<1> QED
  BY <1>1, <1>2, <1>3, <1>4, <1>5, <1>6, <1>7, <1>8, <1>9, HabitFormLife, WizardsLife, CircleLife, CelebrationLife, PTL DEF Spec
-----------------------------------------------------------------------------
\* Once nothing is under way a screen shows what the server has, whatever order its calls and
\* reads were answered in and whichever failed (useTodayHabits.ts, useTodos.ts,
\* useWitnessLinks.ts, usePromises.ts, useNotifications.ts, useFriends.ts, useFeed.ts,
\* useChallengeCompletion.ts), for any numbers of calls, taps, people, rows and events.
THEOREM AlwaysTruthful == Spec => []Truthful
<1>1. (/\ (which = "completions" => G!C!Truthful)
       /\ (which = "todos" => G!T!Truthful)
       /\ (which = "links" => Q!L!Truthful)
       /\ (which = "card" => Q!K!Truthful)
       /\ (which = "inbox" => Q!I!Truthful)
       /\ (which = "circle" => G!F!Truthful)
       /\ (which = "feed" => Q!A!NoGaps /\ Q!A!RowsFollow)
       /\ (which = "celebration" => G!E!NoneMissed /\ G!E!ErrorIsItsOwn))
      => Truthful
  BY DEF Truthful, Is
<1>2. ~(which = "completions") /\ [Next]_vars => (~(which = "completions"))'
  BY DEF Next, vars
<1>3. ~(which = "todos") /\ [Next]_vars => (~(which = "todos"))'
  BY DEF Next, vars
<1>4. ~(which = "links") /\ [Next]_vars => (~(which = "links"))'
  BY DEF Next, vars
<1>5. ~(which = "card") /\ [Next]_vars => (~(which = "card"))'
  BY DEF Next, vars
<1>6. ~(which = "inbox") /\ [Next]_vars => (~(which = "inbox"))'
  BY DEF Next, vars
<1>7. ~(which = "circle") /\ [Next]_vars => (~(which = "circle"))'
  BY DEF Next, vars
<1>8. ~(which = "feed") /\ [Next]_vars => (~(which = "feed"))'
  BY DEF Next, vars
<1>9. ~(which = "celebration") /\ [Next]_vars => (~(which = "celebration"))'
  BY DEF Next, vars
<1>10. G!C!Spec => [](G!C!Truthful)
  BY G!LogIsTrue, PTL
<1>11. G!T!Spec => [](G!T!Truthful)
  BY G!TodosAreTrue, Assumed, PTL
<1>12. Q!L!Spec => [](Q!L!Truthful)
  BY Q!LinksListIsTrue, PTL
<1>13. Q!K!Spec => [](Q!K!Truthful)
  BY Q!CardShowsPromise, PTL
<1>14. Q!I!Spec => [](Q!I!Truthful)
  BY Q!InboxIsTrue, Assumed, PTL
<1>15. G!F!Spec => [](G!F!Truthful)
  BY G!CircleIsTrue, PTL
<1>16. Q!A!Spec => [](Q!A!NoGaps /\ Q!A!RowsFollow)
  BY Q!FeedHasNoGaps, Q!RowsFollowEvents, Assumed, PTL
<1>17. G!E!Spec => [](G!E!NoneMissed /\ G!E!ErrorIsItsOwn)
  BY G!NoneIsMissed, G!BlameIsRight, Assumed, PTL
<1> QED
  BY <1>1, <1>2, <1>3, <1>4, <1>5, <1>6, <1>7, <1>8, <1>9, <1>10, <1>11, <1>12, <1>13, <1>14,
     <1>15, <1>16, <1>17, CompletionsLife, TodosLife, LinksLife, CardLife, InboxLife, CircleLife,
     FeedLife, CelebrationLife, PTL DEF Spec
-----------------------------------------------------------------------------
(* The variables of the module that was chosen stay typed.                 *)

LEMMA CompletionsTyped == Spec => [](which = "completions" => G!C!TypeOK)
<1>1. ~(which = "completions") /\ [Next]_vars => (~(which = "completions"))'
  BY DEF Next, vars
<1>2. G!C!Spec => []G!C!TypeOK
  BY G!LogTypes
<1> QED
  BY <1>1, <1>2, CompletionsLife, PTL DEF Spec

LEMMA OrderingTyped == Spec => [](which = "ordering" => G!O!TypeOK)
<1>1. ~(which = "ordering") /\ [Next]_vars => (~(which = "ordering"))'
  BY DEF Next, vars
<1>2. G!O!Spec => []G!O!TypeOK
  BY G!OrderTyped, Assumed
<1> QED
  BY <1>1, <1>2, OrderingLife, PTL DEF Spec

LEMMA TodosTyped == Spec => [](which = "todos" => G!T!TypeOK)
<1>1. ~(which = "todos") /\ [Next]_vars => (~(which = "todos"))'
  BY DEF Next, vars
<1>2. G!T!Spec => []G!T!TypeOK
  BY G!TodoTypes, Assumed
<1> QED
  BY <1>1, <1>2, TodosLife, PTL DEF Spec

LEMMA MeditationTyped == Spec => [](which = "meditation" => G!M!TypeOK)
<1>1. ~(which = "meditation") /\ [Next]_vars => (~(which = "meditation"))'
  BY DEF Next, vars
<1>2. G!M!Spec => []G!M!TypeOK
  BY G!MeditationTyped, Assumed
<1> QED
  BY <1>1, <1>2, MeditationLife, PTL DEF Spec

LEMMA RemindersTyped == Spec => [](which = "reminders" => Q!R!TypeOK)
<1>1. ~(which = "reminders") /\ [Next]_vars => (~(which = "reminders"))'
  BY DEF Next, vars
<1>2. Q!R!Spec => []Q!R!TypeOK
  BY Q!ReminderTypes, Assumed
<1> QED
  BY <1>1, <1>2, RemindersLife, PTL DEF Spec

LEMMA PushTyped == Spec => [](which = "push" => G!P!TypeOK)
<1>1. ~(which = "push") /\ [Next]_vars => (~(which = "push"))'
  BY DEF Next, vars
<1>2. G!P!Spec => []G!P!TypeOK
  BY G!PushIsTyped, Assumed
<1> QED
  BY <1>1, <1>2, PushLife, PTL DEF Spec

LEMMA HabitFormTyped == Spec => [](which = "form" => G!H!TypeOK)
<1>1. ~(which = "form") /\ [Next]_vars => (~(which = "form"))'
  BY DEF Next, vars
<1>2. G!H!Spec => []G!H!TypeOK
  BY G!FormTyped, Assumed
<1> QED
  BY <1>1, <1>2, HabitFormLife, PTL DEF Spec

LEMMA WizardsTyped == Spec => [](which = "wizards" => G!W!TypeOK)
<1>1. ~(which = "wizards") /\ [Next]_vars => (~(which = "wizards"))'
  BY DEF Next, vars
<1>2. G!W!Spec => []G!W!TypeOK
  BY G!WizardTyped, Assumed
<1> QED
  BY <1>1, <1>2, WizardsLife, PTL DEF Spec

LEMMA LinksTyped == Spec => [](which = "links" => Q!L!TypeOK)
<1>1. ~(which = "links") /\ [Next]_vars => (~(which = "links"))'
  BY DEF Next, vars
<1>2. Q!L!Spec => []Q!L!TypeOK
  BY Q!LinkTypes
<1> QED
  BY <1>1, <1>2, LinksLife, PTL DEF Spec

LEMMA CardTyped == Spec => [](which = "card" => Q!K!TypeOK)
<1>1. ~(which = "card") /\ [Next]_vars => (~(which = "card"))'
  BY DEF Next, vars
<1>2. Q!K!Spec => []Q!K!TypeOK
  BY Q!CardTypes
<1> QED
  BY <1>1, <1>2, CardLife, PTL DEF Spec

LEMMA InboxTyped == Spec => [](which = "inbox" => Q!I!TypeOK)
<1>1. ~(which = "inbox") /\ [Next]_vars => (~(which = "inbox"))'
  BY DEF Next, vars
<1>2. Q!I!Spec => []Q!I!TypeOK
  BY Q!InboxTypes, Assumed
<1> QED
  BY <1>1, <1>2, InboxLife, PTL DEF Spec

LEMMA CircleTyped == Spec => [](which = "circle" => G!F!TypeOK)
<1>1. ~(which = "circle") /\ [Next]_vars => (~(which = "circle"))'
  BY DEF Next, vars
<1>2. G!F!Spec => []G!F!TypeOK
  BY G!CircleTypes
<1> QED
  BY <1>1, <1>2, CircleLife, PTL DEF Spec

LEMMA InvitesTyped == Spec => [](which = "invites" => Q!V!TypeOK)
<1>1. ~(which = "invites") /\ [Next]_vars => (~(which = "invites"))'
  BY DEF Next, vars
<1>2. Q!V!Spec => []Q!V!TypeOK
  BY Q!InviteTypes, Assumed
<1> QED
  BY <1>1, <1>2, InvitesLife, PTL DEF Spec

LEMMA ScoreTyped == Spec => [](which = "score" => Q!Score!TypeOK)
<1>1. ~(which = "score") /\ [Next]_vars => (~(which = "score"))'
  BY DEF Next, vars
<1>2. Q!Score!Spec => []Q!Score!TypeOK
  BY Q!ScoreTypes, Assumed
<1> QED
  BY <1>1, <1>2, ScoreLife, PTL DEF Spec

LEMMA FeedTyped == Spec => [](which = "feed" => Q!A!TypeOK)
<1>1. ~(which = "feed") /\ [Next]_vars => (~(which = "feed"))'
  BY DEF Next, vars
<1>2. Q!A!Spec => []Q!A!TypeOK
  BY Q!FeedTyped, Assumed
<1> QED
  BY <1>1, <1>2, FeedLife, PTL DEF Spec

LEMMA CelebrationTyped == Spec => [](which = "celebration" => G!E!TypeOK)
<1>1. ~(which = "celebration") /\ [Next]_vars => (~(which = "celebration"))'
  BY DEF Next, vars
<1>2. G!E!Spec => []G!E!TypeOK
  BY G!CelebrationTypes, Assumed
<1> QED
  BY <1>1, <1>2, CelebrationLife, PTL DEF Spec

LEMMA LimiterTyped == Spec => [](which = "limiter" => Q!B!TypeOK)
<1>1. ~(which = "limiter") /\ [Next]_vars => (~(which = "limiter"))'
  BY DEF Next, vars
<1>2. Q!B!Spec => []Q!B!TypeOK
  BY Q!LimiterIsTyped, Assumed
<1> QED
  BY <1>1, <1>2, LimiterLife, PTL DEF Spec

\* The screens that show what the server has, and change it.
CallsTyped ==
  /\ Is("completions", G!C!TypeOK)
  /\ Is("todos", G!T!TypeOK)
  /\ Is("links", Q!L!TypeOK)
  /\ Is("card", Q!K!TypeOK)
  /\ Is("inbox", Q!I!TypeOK)
  /\ Is("circle", G!F!TypeOK)

\* What is edited and saved, timed, switched or celebrated.
FormsTyped ==
  /\ Is("ordering", G!O!TypeOK)
  /\ Is("meditation", G!M!TypeOK)
  /\ Is("push", G!P!TypeOK)
  /\ Is("form", G!H!TypeOK)
  /\ Is("wizards", G!W!TypeOK)
  /\ Is("celebration", G!E!TypeOK)

\* The jobs of the server, and the feed.
JobsTyped ==
  /\ Is("reminders", Q!R!TypeOK)
  /\ Is("invites", Q!V!TypeOK)
  /\ Is("score", Q!Score!TypeOK)
  /\ Is("feed", Q!A!TypeOK)
  /\ Is("limiter", Q!B!TypeOK)

LEMMA AlwaysCallsTyped == Spec => []CallsTyped
<1>1. (/\ (which = "completions" => G!C!TypeOK)
       /\ (which = "todos" => G!T!TypeOK)
       /\ (which = "links" => Q!L!TypeOK)
       /\ (which = "card" => Q!K!TypeOK)
       /\ (which = "inbox" => Q!I!TypeOK)
       /\ (which = "circle" => G!F!TypeOK))
      => CallsTyped
  BY DEF CallsTyped, Is
<1> QED
  BY <1>1, CompletionsTyped, TodosTyped, LinksTyped, CardTyped, InboxTyped, CircleTyped, PTL

LEMMA AlwaysFormsTyped == Spec => []FormsTyped
<1>1. (/\ (which = "ordering" => G!O!TypeOK)
       /\ (which = "meditation" => G!M!TypeOK)
       /\ (which = "push" => G!P!TypeOK)
       /\ (which = "form" => G!H!TypeOK)
       /\ (which = "wizards" => G!W!TypeOK)
       /\ (which = "celebration" => G!E!TypeOK))
      => FormsTyped
  BY DEF FormsTyped, Is
<1> QED
  BY <1>1, OrderingTyped, MeditationTyped, PushTyped, HabitFormTyped, WizardsTyped,
     CelebrationTyped, PTL

LEMMA AlwaysJobsTyped == Spec => []JobsTyped
<1>1. (/\ (which = "reminders" => Q!R!TypeOK)
       /\ (which = "invites" => Q!V!TypeOK)
       /\ (which = "score" => Q!Score!TypeOK)
       /\ (which = "feed" => Q!A!TypeOK)
       /\ (which = "limiter" => Q!B!TypeOK))
      => JobsTyped
  BY DEF JobsTyped, Is
<1> QED
  BY <1>1, RemindersTyped, InvitesTyped, ScoreTyped, FeedTyped, LimiterTyped, PTL

\* The variables of the screens and jobs stay typed, for all values of their constants.
THEOREM AlwaysTyped == Spec => []TypeOK
<1>1. CallsTyped /\ FormsTyped /\ JobsTyped => TypeOK
  BY DEF TypeOK, CallsTyped, FormsTyped, JobsTyped
<1> QED
  BY <1>1, AlwaysCallsTyped, AlwaysFormsTyped, AlwaysJobsTyped, PTL

\* The score of a habit is what was kept of its days or weeks, to log what it covers lowers neither
\* it nor the flame, and nothing outside the window counts, for any window below a thousand days
\* (consistency.go:93-382).
THEOREM AlwaysScored == Spec => []ScoreIsTrue
<1> DEFINE True == /\ Q!Score!ScoreCounts /\ Q!Score!LoggingHelps /\ Q!Score!OnlyWindowCounts
                   /\ Q!Score!RangeAgrees
<1>1. ~(which = "score") /\ [Next]_vars => (~(which = "score"))'
  BY DEF Next, vars
<1>2. Q!Score!Spec => []True
  BY Q!ScoreAlwaysTrue, Assumed
<1>3. (which = "score" => True) => ScoreIsTrue
  BY DEF ScoreIsTrue, Is
<1> HIDE DEF True
<1> QED
  BY <1>1, <1>2, <1>3, ScoreLife, PTL DEF Spec
=============================================================================
