SPECIFICATION FairCoordSpec
CONSTANTS
  Session = {"ses"}
  Key = {"m1", "m2"}
  SessionOf <- MCSessionOf
  Payload <- MCPayload
  Plain <- MCPlain
  Mode <- MCMode
  Fault = {"limited", "error"}
  MaxEnqueues = 5
  MaxFaults = 1
  Conv = {"c1", "c2"}
  ConvOf <- MCConvOf
  MaxEvents = 5
INVARIANTS CoordTypeOK NoticesAlternate QuietAfterStop
PROPERTIES QueueServed StopReturns
