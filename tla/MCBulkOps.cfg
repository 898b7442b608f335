SPECIFICATION Spec
CONSTANTS
  None = None  t1 = t1  t2 = t2  main1 = main1  topic = topic  feat = feat
  Trees = {t1, t2}  Linked = {t2}  Branches = {main1, topic, feat}  Target = feat
  Home <- MCHome  Commands <- MCCommands  MaxCommands = 2  DevSteps = 2
INVARIANTS EditsSurvive HalfWayIsReported
PROPERTIES RefsStay RebaseStays
