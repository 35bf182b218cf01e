CONSTANTS
  TAU = 3
  NB_EVALS_LOG = 4
  GROUP = 8
  Families = {"CT", "OT"}
  Builds <- MCBuilds
  Challenges <- MCChallenges
SPECIFICATION Spec
INVARIANTS
  CommitIsLine
  EvalIsOnLine
  NothingLeft
CHECK_DEADLOCK FALSE
