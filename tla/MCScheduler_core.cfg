SPECIFICATION FairSpec
CONSTANTS
  MaxJobs = 3
  MaxEdits = 3
  MaxSpawns = 4
  MaxDeaths = 1
  Editors = {e}
  Sched = Sched
  Commands = {"add", "remove", "retry", "clear"}
  Afters = {0, 1, 2}
  Clocks = {TRUE}
  Mode = "plain"
  Failures = TRUE
  Overlap = FALSE
  NoView = NoView
INVARIANT OneInFlight
INVARIANT BlockedForAFailure
PROPERTY StartsAfterSuccess
PROPERTY PendingEnds
