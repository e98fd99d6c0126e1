SPECIFICATION StreamerSpec
CONSTANTS
  Session = {"ses"}
  Key = {"m1"}
  SessionOf <- MCSessionOf
  Payload <- MCPayload
  Plain <- MCPlain
  Mode <- MCMode
  Fault = {"parse", "limited", "error", "lost", "gone"}
  MaxEnqueues = 3
  MaxFaults = 2
INVARIANTS TypeOK NoUpdateLost ListsItsMessages StreamedIsShown GivenUpIsCleaned
PROPERTIES CancelledIsSilent
