SPECIFICATION Spec
CONSTANTS
  PathOrder <- MCPaths
  Starter <- MCStarter
  Keys = {k1, k2}
  Operations = {"file", "directory", "replace", "move", "delete"}
  MaximumEntries = 3
  Retained = 1
  Page = 1
  Restarts = 1
  Submissions = 2
  Expiries = 1
CHECK_DEADLOCK FALSE
INVARIANT TreeIsSound
INVARIANT SubmissionIsComplete
INVARIANT TakesEffectOnce
