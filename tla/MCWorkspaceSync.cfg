CONSTANTS
  top = top
  inner = inner
  lost = lost
  ring = ring
  pair = pair
  away = away
  none = none
  unset = unset
  pull = pull
  reset = reset
  Files <- MCFiles
  RootDirs = {top, inner, ring}
  Nowhere = none
  Unset = unset
  MaxConfigDepth = 10
  Paths <- MCPaths
  Workspaces <- MCWorkspaces
  Forge <- MCForge
  Listed <- MCListed
  Inside <- MCInside
  LinkLists <- MCLinkLists
  Disks <- MCDisks
  SelfSync = TRUE
  Requests <- MCRequests
  MaxDepth = 3
  OtherSteps = 1
SPECIFICATION Spec
CHECK_DEADLOCK FALSE
INVARIANTS
  TypeOK
  LoadedMeansResolved
  DryRunKeepsRepositories
  SuccessMeansMirrored
  NoWorkspaceWithinItself
PROPERTIES
  OnlyOrphansGo
