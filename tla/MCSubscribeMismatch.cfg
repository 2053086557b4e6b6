\* The instance of MCSubscribe.cfg; a mismatched subscriber's TypeCast is
\* promised and never returned.
CONSTANTS
  g1 = g1
  g2 = g2
  u1 = u1
  u2 = u2
  u3 = u3
  p1 = p1
  p2 = p2
  Group = {g1, g2}
  Mortal = {g1}
  Sub = {u1, u2, u3}
  Post = {p1, p2}
  Type = {"T", "W"}
  To <- MCTo
  TypeOf <- MCTypeOf
  Impatient = {p2}
  Detached = {u3}
SPECIFICATION Spec
INVARIANTS TypeCastReturned
CHECK_DEADLOCK FALSE
