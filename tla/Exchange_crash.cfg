CONSTANTS
  early = early
  late = late
  x1 = x1
  x2 = x2
  Updates = {early, late}
  Uploads = {x1, x2}
  BadUploads = {}
  Rank <- MCRank
  Overlap = FALSE
  MaxCrashes = 2
SPECIFICATION FairSpec
CHECK_DEADLOCK FALSE
INVARIANTS TypeOK OncePerLife MarkerOutlivesEarlierNames
PROPERTIES ImplementsMailbox OnlyBlockedCopyLoses MarkerServed AnnouncedReachesClients
