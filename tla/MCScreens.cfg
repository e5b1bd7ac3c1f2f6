\* The life of each screen and job, one at a time.
SPECIFICATION MCSpec
CONSTANTS
  m1 = m1
  m2 = m2
  CompletionsConstants <- MCCompletions
  OrderingConstants <- MCOrdering
  TodosConstants <- MCTodos
  MeditationConstants <- MCMeditation
  RemindersConstants <- MCReminders
  PushConstants <- MCPush
  HabitFormConstants <- MCHabitForm
  WizardsConstants <- MCWizards
  LinksConstants <- MCLinks
  PromiseCardConstants <- MCPromiseCard
  InboxConstants <- MCInbox
  CircleConstants <- MCCircle
  InvitesConstants <- MCInvites
  ConsistencyConstants <- MCConsistency
  FeedConstants <- MCFeed
  CelebrationConstants <- MCCelebration
  LimiterConstants <- MCLimiter
SYMMETRY Sym
INVARIANTS TypeOK Truthful SavedAsMeant DoneOnce OnlyShared TimeCounts SettingsAreTrue InvitesHonoured LimitsHold ScoreIsTrue
CHECK_DEADLOCK FALSE
