-------------------------------- MODULE Screens --------------------------------
(***************************************************************************)
(* The modules that model one screen, or one job, each: at first one of    *)
(* them is chosen, and the behaviour is its life.  They never run together *)
(* here, so their variables share twenty places, of which the ones that a  *)
(* module leaves stay empty.  Each module is instantiated through the one  *)
(* that has its theorems, where a variable of some modules has one place.  *)
(***************************************************************************)
EXTENDS Naturals, FiniteSets

\* Of each module its constants, as a record.
CONSTANTS
  CompletionsConstants, OrderingConstants, TodosConstants, MeditationConstants, RemindersConstants,
  PushConstants, HabitFormConstants, WizardsConstants, LinksConstants, PromiseCardConstants,
  InboxConstants, CircleConstants, InvitesConstants, ConsistencyConstants, FeedConstants,
  CelebrationConstants, LimiterConstants

\* Durations are whole and positive (DURATION_OPTIONS, and the validated storage), and what a
\* hint names is due (MeditationLogSheet.tsx).
ASSUME MeditationAssumption ==
  /\ MeditationConstants.Minutes \subseteq Nat \ {0}
  /\ MeditationConstants.Hinted \subseteq MeditationConstants.Habits

\* The reminders' numbers are numbers, a time is in the day, and the window of a time is not
\* empty (reminders.go).
ASSUME RemindersAssumption ==
  /\ {RemindersConstants.Day, RemindersConstants.Window} \subseteq Nat \ {0}
  /\ {RemindersConstants.Gap, RemindersConstants.LastDay} \subseteq Nat
  /\ RemindersConstants.Times \subseteq 0 .. (RemindersConstants.Day - 1)

\* The numbers of the invites are numbers, and there are finitely many (invite_service.go).
ASSUME InvitesAssumption ==
  /\ {InvitesConstants.Cap, InvitesConstants.TTL, InvitesConstants.MaxDay,
      InvitesConstants.MaxCalls} \subseteq Nat
  /\ IsFiniteSet(InvitesConstants.Ids)

\* A limiter lets something through, and its window is not empty (limiter.go).
ASSUME LimiterAssumption ==
  /\ LimiterConstants.Window \in Nat \ {0}
  /\ {LimiterConstants.MaxClock, LimiterConstants.MaxCome} \subseteq Nat
  /\ LimiterConstants.Limit \in [DOMAIN LimiterConstants.Limit -> Nat \ {0}]

\* Endpoints are numbered; lists are finite.
ASSUME FiniteAssumption ==
  /\ PushConstants.MaxEndpoints \in Nat
  /\ IsFiniteSet(OrderingConstants.Items) /\ IsFiniteSet(CelebrationConstants.Ids)

\* Something can be typed into the form of a habit (CreateHabitScreen.tsx), and the target a
\* wizard offers is one that can be set (CreateChallengeScreen.tsx).
ASSUME FormsAssumption ==
  /\ HabitFormConstants.Texts # {}
  /\ {WizardsConstants.MaxTarget, WizardsConstants.Stride, WizardsConstants.Cap} \subseteq Nat
  /\ WizardsConstants.DefaultTarget \in 1 .. WizardsConstants.MaxTarget

\* A page and a batch of the feed hold something, and the service looks at one batch at least
\* (Service.Feed of service.go).
ASSUME FeedAssumption ==
  /\ {FeedConstants.Limit, FeedConstants.BatchSize, FeedConstants.MaxIterations,
      FeedConstants.MaxPages} \subseteq Nat \ {0}
  /\ {FeedConstants.MaxFirst, FeedConstants.MaxEvents} \subseteq Nat

\* What is counted is counted in numbers.
ASSUME NumbersAssumption ==
  /\ {TodosConstants.MaxCalls, InboxConstants.First, InboxConstants.Most,
      ConsistencyConstants.LastDay} \subseteq Nat
  /\ InboxConstants.First <= InboxConstants.Most
  /\ ConsistencyConstants.WindowDays \in 1 .. 999 /\ ConsistencyConstants.Week \in Nat \ {0}

VARIABLES
  which,  \* the module that was chosen
  v1, v2, v3, v4, v5, v6, v7, v8, v9, v10, v11, v12, v13, v14, v15, v16, v17, v18, v19, v20

vars == <<which, v1, v2, v3, v4, v5, v6, v7, v8, v9, v10, v11, v12, v13, v14, v15, v16, v17, v18, v19, v20>>

-----------------------------------------------------------------------------
Q == INSTANCE BackendProofs WITH
       FeedLimit <- FeedConstants.Limit, BatchSize <- FeedConstants.BatchSize,
       MaxIterations <- FeedConstants.MaxIterations, MaxFirst <- FeedConstants.MaxFirst,
       MaxPages <- FeedConstants.MaxPages, MaxFeedEvents <- FeedConstants.MaxEvents,
       FirstNotes <- InboxConstants.First, MostNotes <- InboxConstants.Most,
       PageSize <- InboxConstants.PageSize, MaxInboxCalls <- InboxConstants.MaxCalls,
       MaxInboxTaps <- InboxConstants.MaxTaps, MaxInboxEvents <- InboxConstants.MaxEvents,
       MaxFlows <- PromiseCardConstants.MaxFlows, MaxCardTaps <- PromiseCardConstants.MaxTaps,
       MaxCardEvents <- PromiseCardConstants.MaxEvents,
       WindowDays <- ConsistencyConstants.WindowDays, Week <- ConsistencyConstants.Week,
       CustomDays <- ConsistencyConstants.CustomDays, LastScoreDay <- ConsistencyConstants.LastDay,
       Users <- InvitesConstants.Users, Ids <- InvitesConstants.Ids,
       Claims <- InvitesConstants.Requests, Cap <- InvitesConstants.Cap,
       TTL <- InvitesConstants.TTL, Period <- InvitesConstants.Period,
       MaxDay <- InvitesConstants.MaxDay, MaxCalls <- InvitesConstants.MaxCalls,
       LinkIds <- LinksConstants.Ids, LinkHabits <- LinksConstants.Habits,
       MaxLinkCalls <- LinksConstants.MaxCalls, MaxLinkTaps <- LinksConstants.MaxTaps,
       MaxLinkEvents <- LinksConstants.MaxEvents, Day <- RemindersConstants.Day,
       Window <- RemindersConstants.Window, Gap <- RemindersConstants.Gap,
       Times <- RemindersConstants.Times, LastDay <- RemindersConstants.LastDay,
       MaxEvents <- RemindersConstants.MaxEvents, Limit <- LimiterConstants.Limit,
       Addresses <- LimiterConstants.Addresses, Requests <- LimiterConstants.Requests,
       LimitWindow <- LimiterConstants.Window,
       ScavengeInterval <- LimiterConstants.ScavengeInterval,
       MaxClock <- LimiterConstants.MaxClock, MaxCome <- LimiterConstants.MaxCome, friend <- v4,
       vis <- v8, rows <- v6, clock <- v3, emits <- v9, job <- v2, pages <- v5, fetch <- v7,
       moved <- v10, fresh <- v11, slipped <- v12, events <- v1, total <- v6, read <- v7,
       count <- v9, list <- v8, badge <- v10, calls <- v4, blind <- v2, taps <- v3, promise <- v4,
       past <- v5, due <- v6, data <- v7, loading <- v8, error <- v9, showForm <- v10,
       cancelError <- v11, flows <- v12, begun <- v13, latest <- v14, freq <- v1, customDays <- v2,
       created <- v3, completions <- v4, today <- v5, now <- v1, invites <- v3, friends <- v6,
       habits <- v7, challenges <- v8, told <- v9, gone <- v5, pc <- v10, writes <- v11,
       crossed <- v12, native <- v9, dialog <- v10, view <- v11, local <- v3, passed <- v2,
       settings <- v4, complete <- v5, row <- v6, push <- v7, pushes <- v8, unmarked <- v9,
       excused <- v10, sprung <- v11, buckets <- v1, lastScavenge <- v4, req <- v5, came <- v6,
       refused <- v7, newest <- v8, late <- v9

G == INSTANCE FrontendProofs WITH
       LogCalls <- CompletionsConstants.Calls, MaxLogTaps <- CompletionsConstants.MaxTaps,
       MaxLogEvents <- CompletionsConstants.MaxEvents,
       MaxLogMoves <- CompletionsConstants.MaxMoves, TodoItems <- TodosConstants.Items,
       MaxTodoCalls <- TodosConstants.MaxCalls, MaxTodoTaps <- TodosConstants.MaxTaps,
       MaxTodoEvents <- TodosConstants.MaxEvents, MaxTodoMoves <- TodosConstants.MaxMoves,
       Minutes <- MeditationConstants.Minutes, MaxClock <- MeditationConstants.MaxClock,
       DueHabits <- MeditationConstants.Habits, Hinted <- MeditationConstants.Hinted,
       MaxTimerEvents <- MeditationConstants.MaxEvents, Users <- PushConstants.Users,
       Ops <- PushConstants.Ops, Puts <- PushConstants.Puts,
       MaxEndpoints <- PushConstants.MaxEndpoints, MaxPushEvents <- PushConstants.MaxEvents,
       MaxMoves <- PushConstants.MaxMoves, People <- CircleConstants.People,
       Native <- CircleConstants.Native, MaxCalls <- CircleConstants.MaxCalls,
       MaxCircleTaps <- CircleConstants.MaxTaps, MaxCircleEvents <- CircleConstants.MaxEvents,
       MaxCircleMoves <- CircleConstants.MaxMoves, Texts <- HabitFormConstants.Texts,
       MaxPresses <- HabitFormConstants.MaxPresses, MaxFormEdits <- HabitFormConstants.MaxEdits,
       MaxFormEvents <- HabitFormConstants.MaxEvents, WizardHabits <- WizardsConstants.Habits,
       Rewards <- WizardsConstants.Rewards, Cap <- WizardsConstants.Cap,
       MaxTarget <- WizardsConstants.MaxTarget, DefaultTarget <- WizardsConstants.DefaultTarget,
       Stride <- WizardsConstants.Stride, MaxSends <- WizardsConstants.MaxSends,
       MaxWizardEdits <- WizardsConstants.MaxEdits, MaxWizardEvents <- WizardsConstants.MaxEvents,
       ListItems <- OrderingConstants.Items, MaxOrderEvents <- OrderingConstants.MaxEvents,
       MaxOrderEdits <- OrderingConstants.MaxEdits, CelebratingUsers <- CelebrationConstants.Users,
       CelebratedIds <- CelebrationConstants.Ids,
       MaxCelebrationTaps <- CelebrationConstants.MaxTaps,
       MaxCelebrationEvents <- CelebrationConstants.MaxEvents, minimum <- v7, logged <- v8,
       screen <- v4, cache <- v6, fetch <- v2, call <- v5, latest <- v10, undo <- v11,
       calendar <- v12, taps <- v9, events <- v1, blind <- v3, rows <- v7, list <- v6, stale <- v8,
       exiting <- v5, calls <- v10, now <- v2, session <- v3, durationMin <- v6, confirm <- v8,
       ran <- v9, saved <- v10, sheet <- v11, done <- v7, shown <- v4, taken <- v12, failed <- v13,
       user <- v7, permission <- v2, sub <- v3, made <- v5, tokens <- v6, status <- v8,
       subscribing <- v9, op <- v10, stored <- v11, put <- v12, wanted <- v13, zone <- v14,
       moves <- v15, alone <- v16, serial <- v17, cached <- v6, busy <- v5, asked <- v11,
       sending <- v12, sent <- v13, editing <- v4, default <- v5, habits <- v10, prefs <- v11,
       given <- v12, open <- v13, picker <- v14, form <- v15, touched <- v16, pending <- v17,
       error <- v3, subs <- v18, presses <- v19, edits <- v8, lost <- v9, hasty <- v20,
       kind <- v10, native <- v12, shared <- v13, step <- v14, draft <- v11, changed <- v15,
       sends <- v16, count <- v17, mode <- v4, req <- v9, told <- v12, accepted <- v13,
       took <- v14, parties <- v10, fresh <- v11, loaded <- v12, seen <- v13, queue <- v14,
       claiming <- v15, first <- v16, celebrated <- v17, looked <- v18, slipped <- v19,
       crossed <- v20

-----------------------------------------------------------------------------
Empty == "empty"

Init ==
  \/ /\ which = "completions" /\ G!C!Init
     /\ v13 = Empty /\ v14 = Empty /\ v15 = Empty /\ v16 = Empty /\ v17 = Empty
     /\ v18 = Empty /\ v19 = Empty /\ v20 = Empty
  \/ /\ which = "ordering" /\ G!O!Init
     /\ v15 = Empty /\ v16 = Empty /\ v17 = Empty /\ v18 = Empty /\ v19 = Empty
     /\ v20 = Empty
  \/ /\ which = "todos" /\ G!T!Init
     /\ v11 = Empty /\ v12 = Empty /\ v13 = Empty /\ v14 = Empty /\ v15 = Empty
     /\ v16 = Empty /\ v17 = Empty /\ v18 = Empty /\ v19 = Empty /\ v20 = Empty
  \/ /\ which = "meditation" /\ G!M!Init
     /\ v14 = Empty /\ v15 = Empty /\ v16 = Empty /\ v17 = Empty /\ v18 = Empty
     /\ v19 = Empty /\ v20 = Empty
  \/ /\ which = "reminders" /\ Q!R!Init
     /\ v12 = Empty /\ v13 = Empty /\ v14 = Empty /\ v15 = Empty /\ v16 = Empty
     /\ v17 = Empty /\ v18 = Empty /\ v19 = Empty /\ v20 = Empty
  \/ /\ which = "push" /\ G!P!Init
     /\ v18 = Empty /\ v19 = Empty /\ v20 = Empty
  \/ /\ which = "form" /\ G!H!Init
  \/ /\ which = "wizards" /\ G!W!Init
     /\ v18 = Empty /\ v19 = Empty /\ v20 = Empty
  \/ /\ which = "links" /\ Q!L!Init
     /\ v12 = Empty /\ v13 = Empty /\ v14 = Empty /\ v15 = Empty /\ v16 = Empty
     /\ v17 = Empty /\ v18 = Empty /\ v19 = Empty /\ v20 = Empty
  \/ /\ which = "card" /\ Q!K!Init
     /\ v15 = Empty /\ v16 = Empty /\ v17 = Empty /\ v18 = Empty /\ v19 = Empty
     /\ v20 = Empty
  \/ /\ which = "inbox" /\ Q!I!Init
     /\ v11 = Empty /\ v12 = Empty /\ v13 = Empty /\ v14 = Empty /\ v15 = Empty
     /\ v16 = Empty /\ v17 = Empty /\ v18 = Empty /\ v19 = Empty /\ v20 = Empty
  \/ /\ which = "circle" /\ G!F!Init
     /\ v14 = Empty /\ v15 = Empty /\ v16 = Empty /\ v17 = Empty /\ v18 = Empty
     /\ v19 = Empty /\ v20 = Empty
  \/ /\ which = "invites" /\ Q!V!Init
     /\ v13 = Empty /\ v14 = Empty /\ v15 = Empty /\ v16 = Empty /\ v17 = Empty
     /\ v18 = Empty /\ v19 = Empty /\ v20 = Empty
  \/ /\ which = "score" /\ Q!Score!Init
     /\ v6 = Empty /\ v7 = Empty /\ v8 = Empty /\ v9 = Empty /\ v10 = Empty
     /\ v11 = Empty /\ v12 = Empty /\ v13 = Empty /\ v14 = Empty /\ v15 = Empty
     /\ v16 = Empty /\ v17 = Empty /\ v18 = Empty /\ v19 = Empty /\ v20 = Empty
  \/ /\ which = "feed" /\ Q!A!Init
     /\ v13 = Empty /\ v14 = Empty /\ v15 = Empty /\ v16 = Empty /\ v17 = Empty
     /\ v18 = Empty /\ v19 = Empty /\ v20 = Empty
  \/ /\ which = "celebration" /\ G!E!Init
  \/ /\ which = "limiter" /\ Q!B!Init
     /\ v10 = Empty /\ v11 = Empty /\ v12 = Empty /\ v13 = Empty /\ v14 = Empty
     /\ v15 = Empty /\ v16 = Empty /\ v17 = Empty /\ v18 = Empty /\ v19 = Empty
     /\ v20 = Empty

Next ==
  /\ which' = which
  /\ \/ which = "completions" /\ G!C!Next /\ UNCHANGED <<v13, v14, v15, v16, v17, v18, v19, v20>>
     \/ which = "ordering" /\ G!O!Next /\ UNCHANGED <<v15, v16, v17, v18, v19, v20>>
     \/ which = "todos" /\ G!T!Next /\ UNCHANGED <<v11, v12, v13, v14, v15, v16, v17, v18, v19, v20>>
     \/ which = "meditation" /\ G!M!Next /\ UNCHANGED <<v14, v15, v16, v17, v18, v19, v20>>
     \/ which = "reminders" /\ Q!R!Next /\ UNCHANGED <<v12, v13, v14, v15, v16, v17, v18, v19, v20>>
     \/ which = "push" /\ G!P!Next /\ UNCHANGED <<v18, v19, v20>>
     \/ which = "form" /\ G!H!Next
     \/ which = "wizards" /\ G!W!Next /\ UNCHANGED <<v18, v19, v20>>
     \/ which = "links" /\ Q!L!Next /\ UNCHANGED <<v12, v13, v14, v15, v16, v17, v18, v19, v20>>
     \/ which = "card" /\ Q!K!Next /\ UNCHANGED <<v15, v16, v17, v18, v19, v20>>
     \/ which = "inbox" /\ Q!I!Next /\ UNCHANGED <<v11, v12, v13, v14, v15, v16, v17, v18, v19, v20>>
     \/ which = "circle" /\ G!F!Next /\ UNCHANGED <<v14, v15, v16, v17, v18, v19, v20>>
     \/ which = "invites" /\ Q!V!Next /\ UNCHANGED <<v13, v14, v15, v16, v17, v18, v19, v20>>
     \/ which = "score" /\ Q!Score!Next /\ UNCHANGED <<v6, v7, v8, v9, v10, v11, v12, v13, v14, v15, v16, v17, v18, v19, v20>>
     \/ which = "feed" /\ Q!A!Next /\ UNCHANGED <<v13, v14, v15, v16, v17, v18, v19, v20>>
     \/ which = "celebration" /\ G!E!Next
     \/ which = "limiter" /\ Q!B!Next /\ UNCHANGED <<v10, v11, v12, v13, v14, v15, v16, v17, v18, v19, v20>>

Spec == Init /\ [][Next]_vars

-----------------------------------------------------------------------------
(* Properties: those of the modules, each of the behaviours it is about.   *)

Is(module, property) == which = module => property

TypeOK ==
  /\ Is("completions", G!C!TypeOK) /\ Is("ordering", G!O!TypeOK) /\ Is("todos", G!T!TypeOK)
  /\ Is("meditation", G!M!TypeOK) /\ Is("reminders", Q!R!TypeOK) /\ Is("push", G!P!TypeOK)
  /\ Is("form", G!H!TypeOK) /\ Is("wizards", G!W!TypeOK) /\ Is("links", Q!L!TypeOK)
  /\ Is("card", Q!K!TypeOK) /\ Is("inbox", Q!I!TypeOK) /\ Is("circle", G!F!TypeOK)
  /\ Is("invites", Q!V!TypeOK) /\ Is("score", Q!Score!TypeOK) /\ Is("feed", Q!A!TypeOK)
  /\ Is("celebration", G!E!TypeOK) /\ Is("limiter", Q!B!TypeOK)

\* Once nothing is under way a screen shows what the server has, whatever order its calls and
\* reads were answered in and whichever failed, but for the cases the modules name
\* (the onMutate, onError and onSettled of useTodayHabits.ts, useTodos.ts, useWitnessLinks.ts,
\* usePromises.ts, useNotifications.ts, useFriends.ts, useFeed.ts;
\* the queue of useChallengeCompletion.ts).
Truthful ==
  /\ Is("completions", G!C!Truthful) /\ Is("todos", G!T!Truthful) /\ Is("links", Q!L!Truthful)
  /\ Is("card", Q!K!Truthful) /\ Is("inbox", Q!I!Truthful) /\ Is("circle", G!F!Truthful)
  /\ Is("feed", Q!A!NoGaps /\ Q!A!RowsFollow)
  /\ Is("celebration", G!E!NoneMissed /\ G!E!ErrorIsItsOwn)

\* What was saved is what the user saw when it was saved: the order that was dragged
\* (TodayScreen.tsx), the habit that was submitted (CreateHabitScreen.tsx).
SavedAsMeant == Is("ordering", G!O!SavedAsMeant) /\ Is("form", G!H!SavedAsSubmitted)

\* One intention, one effect: a habit form that is retried makes one habit
\* (CreateHabitScreen.tsx), a wizard sets one challenge (CreateChallengeScreen.tsx), a request
\* is answered by one call at a time (FriendsScreen.tsx), a challenge is celebrated once
\* (useChallengeCompletion.ts).
DoneOnce ==
  /\ Is("form", G!H!OneHabit) /\ Is("wizards", G!W!SetOnce) /\ Is("circle", G!F!OneAnswer)
  /\ Is("celebration", G!E!CelebratedOnce)

\* A visitor of a witness link is shown what was shared during the visit and nothing else
\* (witness_service.go).
OnlyShared == Is("links", Q!L!OnlyShared)

\* The meditation timer counts the time it ran, and the habit it marks is one whose log was
\* accepted (MeditationScreen.tsx, MeditationLogSheet.tsx); a reminder is pushed once a day
\* unless its row could not be marked, and on each day that needs it, but for the days the
\* module names (reminders.go).
TimeCounts ==
  /\ Is("meditation", G!M!TimeKept /\ G!M!MarkedWasLogged)
  /\ Is("reminders", Q!R!OncePerDay /\ Q!R!KeptEachDay)

\* The push switch and the reminder settings show what the browser and the server have
\* (usePushNotifications.ts, SettingsScreen.tsx).
SettingsAreTrue == Is("push", G!P!SwitchIsTrue /\ G!P!SettingsAreTrue)

\* A claimed invite made one friendship, habit and challenge, another made nothing; the page of
\* an invite offers what a claim would take, and
\* only the deletion of an account can be in a deadlock (invite_service.go).
InvitesHonoured ==
  Is("invites", Q!V!ClaimIsWhole /\ Q!V!PageIsRight /\ Q!V!OnlyDeletionsDeadlock)

\* The cap of open invites holds for creations that do not overlap (invite_service.go); a
\* rate limiter passes no burst beyond twice its limit and refuses only for cause (limiter.go).
LimitsHold ==
  Is("invites", Q!V!CapHolds) /\ Is("limiter", Q!B!BurstIsBounded /\ Q!B!RefusedForCause)

\* The score is the share of the days or weeks that were kept, to log what it covers lowers
\* neither it nor the flame, what is outside the window does not count, and the milestones of
\* challenges agree with it (consistency.go).
ScoreIsTrue ==
  Is("score", Q!Score!ScoreCounts /\ Q!Score!LoggingHelps /\ Q!Score!OnlyWindowCounts /\ Q!Score!RangeAgrees)

=============================================================================
