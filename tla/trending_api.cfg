CONSTANTS
  NumRepos = 3
  Walkers = {w1, w2}
  Limit = 1
  Ttl = 2
  MaxBuild = 1
  MaxStars = 2
  InitialStars <- LeadAndTie
  MaxChanges = 1
  MaxTime = 4
SPECIFICATION Spec
INVARIANT TypeOK
INVARIANT StableShownOnce
INVARIANT CachedIsFresh
CHECK_DEADLOCK FALSE
