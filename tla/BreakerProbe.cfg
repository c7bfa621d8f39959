SPECIFICATION Spec
CONSTANTS
  c1 = c1
  c2 = c2
  Caller = {c1, c2}
  Background = {}
  Threshold = 1
  Cooldown = 2
  MaxAttempts = 1
  MaxFailures = 1
INVARIANT OneProbe
