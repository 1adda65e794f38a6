SPECIFICATION Spec
CONSTANTS
  Quota = 200
  Contact = {1, 2, 3, 4, 5, 6}
  From <- MCFrom
  To <- MCTo
  Bitrate <- MCBitrate
  Reach <- MCReach
  Reliability <- MCReliability
  Mbs <- MCMbs
  Plans <- MCPlans
  Updates <- MCUpdates
  MaxFragments = 3
  MaxContacts = 2
  FragmentMinPayload = 8
  MinProbability = 900
  MinOpportunistic = 200
  MinDeterministic = 900
  OptMinTime = 1
  OptMaxBundles = 3
  OptMaxPreBundles = 9
  OptMaxPreBundlesContact = 3
  MaxTime = 5
  MaxRoutings = 3
  MaxEvents = 1
CHECK_DEADLOCK FALSE
INVARIANT PreemptionNeeded
