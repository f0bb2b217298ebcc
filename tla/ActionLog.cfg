SPECIFICATION Spec
CONSTANTS
  Owners = {o1, o2, o3}
  Actions = {a1, a2, a3}
  Null = Null
SYMMETRY Symmetry
CHECK_DEADLOCK FALSE
INVARIANTS TypeOK ListedOnce LostOnlyByOverlap
PROPERTIES ListedIsFinal LookupFinds
