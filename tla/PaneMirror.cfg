SPECIFICATION Spec
CONSTANTS
  Target = {w1}
  Content = {a, b}
  IdleStops = {0, 1}
  MaxStreams = 2
  MaxTicks = 2
  None = none
INVARIANTS NoStrayTimer NeverSpins
PROPERTIES ShownAtLast
