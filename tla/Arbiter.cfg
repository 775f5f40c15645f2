CONSTANTS
  Schedulers = {"s1", "s2"}
  PartSeq <- MCPartSeq
  Plans <- MCPlans
  FirstAssigned <- MCFirstAssigned
  MasterTimeout = 1
  MaxFaults = 1
  None = None
SPECIFICATION LiveSpec
INVARIANT RunOnceInOrder
PROPERTIES LeadIsSettled ArbiterGoesOn
