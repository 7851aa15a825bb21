CONSTANTS
  early = early
  late = late
  x1 = x1
  x2 = x2
  Updates = {late}
  Uploads = {x1, x2}
  BadUploads = {x2}
  Rank <- MCRank
  Overlap = TRUE
  MaxCrashes = 1
  MaxControls = 2
SPECIFICATION ServFairSpec
CHECK_DEADLOCK FALSE
INVARIANTS NoMissedMarker ArchiveFresh StopIsClean
PROPERTY StopIsServed
