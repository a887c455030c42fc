SPECIFICATION PreemptionSpec
CONSTANTS
  Delay = 1
  MaxTime = 2
  MaxUpdates = 4
INVARIANT
  GroupCountsAsOne
