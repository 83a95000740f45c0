SPECIFICATION Spec
CONSTANTS
  None = None
  Never = Never
  Ungraded = Ungraded
  AccountCrews <- MCAccountCrews
  MaxFail = 2
  Grace = 1
  MaxNow = 4
  LearningCrews <- MCLearningCrews
  MaxSubmissions = 2
  MaxDays = 1
  MaxFaults = 1
  Pass = 2
  TeamCrews <- MCTeamCrews
  Competitors = {1, 2, 3}
  MaxTeams = 1
  MinSize = 1
  MaxSize = 2
  EnvironmentCrews <- MCEnvironmentCrews
  Slots = {a, b}
  MaxNamespaces = 2
  GroupCrews <- MCGroupCrews
  Classmates = {1, 2}
  Roles = {a}
  RoleMax = 1
  Sizes = {1, 2}
  MaxGroups = 2
  ChallengeCrews <- MCChallengeCrews
  MaxChecks = 2
  TemplateCrews <- MCTemplateCrews
  MaxTemplates = 2
  MaxBoxes = 2
  Versions = {1, 2}
INVARIANTS  OnlyTheSession OutStaysOut FailuresBounded
  AttemptsBounded TotalsAddUp ApprovedIsWritten 
  WithinLimits LockedStays QuotaCounts RunningHasNamespace
CHECK_DEADLOCK FALSE
