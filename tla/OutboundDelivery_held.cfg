\* A reply of two segments in a group chat: the switch and the messages already at the Host
SPECIFICATION Spec
CONSTANTS
  m1 = m1
  m2 = m2
  m3 = m3
  h1 = h1
  b1 = b1
  b2 = b2
  t1 = t1
  t2 = t2
  t3 = t3
  x1 = x1
  None = None
  Messages = {m1, m2}
  Humans = {}
  TextOf <- ReplyTextOf
  Batches = {b1}
  BatchOf <- ReplyBatchOf
  SeqOf <- ReplySeqOf
  AgentMsgs = {m1, m2}
  MediaMsgs = {}
  HumanMedia = {}
  Rejected = {}
  Moving = {}
  ToolResults = {}
  ChatType = "group"
  Actors = {x1}
  TriggerActor <- ReplyTrigger
  Limit = 2
  Window = 1
  TimePasses = FALSE
  MaxToggles = 1
  MaxAborts = 0
  MaxCancels = 0
  MaxLosses = 0
INVARIANT
  HeldNeverDelivered
