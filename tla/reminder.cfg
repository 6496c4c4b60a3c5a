\* Two updates and a removal of one basket; reminders reach Hangfire.API.
SPECIFICATION Spec
CONSTANTS
  alice = alice
  u1 = u1
  u2 = u2
  d1 = d1
  NoCart = NoCart
  NoJob = NoJob
  User = {alice}
  Update = {u1, u2}
  Removal = {d1}
  UserOf <- MCUserOf
  MaxAttempts = 2
  Threshold = 2
  ScheduleUrlMapped = TRUE
  ReplyInTime = TRUE
  ResponseForwarded = TRUE
INVARIANTS TypeOK JobIsOwn LiveJobIsTracked LatestRequestStands RemindersBounded BreakerBoundsPosts
PROPERTY EveryRequestAnswered
CHECK_DEADLOCK FALSE
