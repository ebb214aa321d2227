\* An image of a colleague that waits, and one the owner sends from the phone
SPECIFICATION Spec
CONSTANTS
  m1 = m1
  m2 = m2
  m3 = m3
  h1 = h1
  b1 = b1
  b2 = b2
  t1 = t1
  t2 = t2
  t3 = t3
  x1 = x1
  None = None
  Messages = {m1, m3}
  Humans = {h1}
  TextOf <- MixedTextOf
  Batches = {b1, b2}
  BatchOf <- MixedBatchOf
  SeqOf <- MixedSeqOf
  AgentMsgs = {m1}
  MediaMsgs = {m3}
  HumanMedia = {h1}
  Rejected = {m1}
  Moving = {}
  ToolResults = {}
  ChatType = "group"
  Actors = {}
  TriggerActor <- MixedTrigger
  Limit = 1
  Window = 1
  TimePasses = TRUE
  MaxToggles = 0
  MaxAborts = 0
  MaxCancels = 0
  MaxLosses = 0
INVARIANT
  ConfirmedMediaWasSent
