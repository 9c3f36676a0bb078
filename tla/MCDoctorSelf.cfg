SPECIFICATION Spec
CONSTANTS
  Patients = {p1, p2, p3}
  Nobody = Nobody
  Calls = 1
SYMMETRY Symmetry
INVARIANT NotOneself
CHECK_DEADLOCK FALSE
