\* An agent text whose echo may overtake the answer, and an image of a colleague behind it
SPECIFICATION FairSpec
CONSTANTS
  m1 = m1
  m2 = m2
  m3 = m3
  h1 = h1
  b1 = b1
  b2 = b2
  t1 = t1
  t2 = t2
  t3 = t3
  x1 = x1
  None = None
  Messages = {m1, m3}
  Humans = {}
  TextOf <- MixedTextOf
  Batches = {b1, b2}
  BatchOf <- MixedBatchOf
  SeqOf <- MixedSeqOf
  AgentMsgs = {m1}
  MediaMsgs = {m3}
  HumanMedia = {}
  Rejected = {}
  Moving = {}
  ToolResults = {}
  ChatType = "group"
  Actors = {}
  TriggerActor <- MixedTrigger
  Limit = 1
  Window = 2
  TimePasses = TRUE
  MaxToggles = 0
  MaxAborts = 0
  MaxCancels = 0
  MaxLosses = 0
PROPERTY
  UnknownDoesNotStarve
