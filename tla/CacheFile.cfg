SPECIFICATION Spec
CONSTANTS
  p1 = p1
  p2 = p2
  Processes = {p1, p2}
  Kinds = {"planner", "frame", "call", "context"}
  Shared = {"call", "context"}
  MaxFiles = 3
  MaxFailures = 1
  MaxDamages = 1
  MaxCrashes = 2
SYMMETRY Symmetry
INVARIANTS NeverTorn StoredIsKept NothingLeaks OtherUndisturbed
