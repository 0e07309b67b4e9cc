CONSTANTS
  Server = {s1, s2}
  Restless = s1
  Conn = {c1, c2, c3}
  Nobody = Nobody
  MaxMsgs = 3
SPECIFICATION MCSpec
SYMMETRY Alike
INVARIANTS Registered ListsAgree StatusKnown
