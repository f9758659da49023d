SPECIFICATION DnsFairSpec
CONSTANTS
  Requests = {r1, r2}
  Calls = {c1, c2}
  NULL = NULL
  Timeouts = {0, 1}
  ClockSize = 3
  MaxLife = 2
INVARIANT LateAnswersAreIgnored
PROPERTY CallsReturn
