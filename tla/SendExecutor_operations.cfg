\* A text, an image and a leftover of an old version; the owner types the text
\* by hand as well
SPECIFICATION FairSpec
CONSTANTS
  o1 = o1
  o2 = o2
  o3 = o3
  h1 = h1
  t1 = t1
  t2 = t2
  None = None
  Ops = {o1, o2, o3}
  Humans = {h1}
  TextOf <- MixedKinds
  TextOps = {o1}
  LegacyOps = {o3}
  Limit = 1
  MaxFaults = 1
INVARIANTS
  TypeOK
  AtMostOnceGui
  SilentLossOnlyByCrash
  FailedNeverDelivered
  ConfirmedHasEvidence
  IndInv
PROPERTIES
  ImplementsContract
  ClaimedIsSettled
  PendingIsSettled
