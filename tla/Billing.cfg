SPECIFICATION FairSpec
CONSTANTS
  s1 = s1
  s2 = s2
  h1 = h1
  h2 = h2
  r1 = r1
  r2 = r2
  Subs <- MCSubs
  PlanOf <- MCPlanOf
  Bare <- MCBare
  Handlers <- MCHandlers
  Reminders <- MCReminders
  None = None
  MaxEvents = 3
  Scenarios <- MCScenarios
INVARIANTS MailedOnce RowFollowsStripe PlansAgree
PROPERTIES EventsSettle
CHECK_DEADLOCK FALSE
