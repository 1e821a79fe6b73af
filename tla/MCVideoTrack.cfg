\* Two tracks, one further call of the owner; a machine on which either encoder
\* may be made.
SPECIFICATION Spec
CONSTANTS
  MaxTracks = 2
  MaxCalls = 1
  Vendor = "NVIDIA"
  HasNvenc = TRUE
\* The threads rest between calls, and after the shutdown for good.
CHECK_DEADLOCK FALSE
INVARIANTS
  FaultsNeedCrossing
  StoredFrameIsOfThisTrack
PROPERTIES
  OpenTrackCaptures
