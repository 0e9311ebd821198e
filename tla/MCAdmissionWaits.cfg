SPECIFICATION Spec
CONSTANTS
  Callers = {p1, p2}
  Browsers = {}
  MaxCalls = 1
INVARIANT AdmittedIsServed
