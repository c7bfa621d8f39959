SPECIFICATION Spec
CONSTANTS
  p1 = p1
  p2 = p2
  t1 = t1
  t2 = t2
  a1 = a1
  a2 = a2
  o1 = o1
  o2 = o2
  Proc = {p1}
  Thread = {t1}
  ProcOf <- OneProc
  Action = {a1, a2}
  Output = {o1, o2}
  Produces <- Reproducible
  Size <- Sizes
  MaxSize = 3
  SafetyDur = 1
  Faults = {"crash", "power", "rot"}
  MaxTime = 2
  MaxTotal = 6
INVARIANT TotalCovers
INVARIANT OwnTouchSafe
INVARIANT TrimPlanRight
INVARIANT BodyIndexed
