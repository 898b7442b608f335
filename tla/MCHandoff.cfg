CONSTANTS
  r1 = r1
  r2 = r2
  base = base
  edit = edit
  key = key
  marker = marker
  Repos = {r1, r2}
  Items = {base, edit, key, marker}
  Marker = marker
  Secrets = {key}
  Tracked = {edit, marker}
  Starts <- MCStarts
  Requests <- MCRequests
  OtherSteps = 1
SPECIFICATION Spec
CHECK_DEADLOCK FALSE
INVARIANTS
  ReadyMeansNothingOnlyHere
  HeldItemsStay
  ArrivedMeansAligned
PROPERTIES
  ProtectedRemoteStays
