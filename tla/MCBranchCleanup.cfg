CONSTANTS
  main = main
  topic = topic
  bot = bot
  c0 = c0
  c1 = c1
  c2 = c2
  c3 = c3
  Names = {main, topic, bot}
  Base = main
  Protected = {main}
  Bots = {bot}
  Following = {main, topic}
  Commits = {c0, c1, c2, c3}
  None = None
  OtherSteps = 2
  Starts <- MCStarts
  CleanupRequests <- MCRequests
SPECIFICATION CleanupSpec
CHECK_DEADLOCK FALSE
PROPERTIES
  CommitsSurvive
  UnfetchedTipsStay
  InUseOrProtectedStays
