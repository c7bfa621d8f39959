SPECIFICATION Spec
CONSTANTS
  p1 = p1
  p2 = p2
  t1 = t1
  t2 = t2
  a1 = a1
  a2 = a2
  o1 = o1
  o2 = o2
  Proc = {p1, p2}
  Thread = {t1, t2}
  ProcOf <- OneProc
  Action = {a1}
  Output = {o1, o2}
  Produces <- Reproducible
  Size <- Sizes
  MaxSize = 1
  SafetyDur = 1
  Faults = {"io", "crash"}
  MaxTime = 1
  MaxTotal = 1
SYMMETRY Alike
INVARIANT TypeOK
INVARIANT HitServesItsBody
INVARIANT TotalCovers
INVARIANT OwnTouchSafe
