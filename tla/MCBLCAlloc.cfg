CONSTANTS
  TAU = 3
  NB_EVALS_LOG = 4
  GROUP = 8
  Families = {"OT"}
  Builds <- MCBuilds
  Challenges <- MCChallenges
SPECIFICATION Spec
INVARIANT SuccessMeansWritten
CHECK_DEADLOCK FALSE
