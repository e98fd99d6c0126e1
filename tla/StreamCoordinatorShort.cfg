SPECIFICATION CoordSpec
CONSTANTS
  Session = {"ses"}
  Key = {"m1"}
  SessionOf <- MCSessionOf
  Payload <- MCPayload
  Plain <- MCPlain
  Mode <- MCMode
  Fault = {}
  MaxEnqueues = 3
  MaxFaults = 0
  Conv = {"c1", "c2"}
  ConvOf <- MCConvOf
  MaxEvents = 3
INVARIANT ReplyIsSent
