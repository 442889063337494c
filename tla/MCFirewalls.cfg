SPECIFICATION MCSpec
CONSTANTS
  p1 = p1
  p2 = p2
  p3 = p3
  None = None
INVARIANTS
  PacketsHeldOnce
  VerdictsRight
PROPERTIES
  PacketsJudged
  LaunchReturns
CHECK_DEADLOCK FALSE
