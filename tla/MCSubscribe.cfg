\* Three subscriptions, one for another type; two posts, one whose caller may
\* drop it at any point.
CONSTANTS
  g1 = g1
  g2 = g2
  u1 = u1
  u2 = u2
  u3 = u3
  p1 = p1
  p2 = p2
  Group = {g1, g2}
  Mortal = {g1}
  Sub = {u1, u2, u3}
  Post = {p1, p2}
  Type = {"T", "W"}
  To <- MCTo
  TypeOf <- MCTypeOf
  Impatient = {p2}
  Detached = {u3}
SPECIFICATION FairSpec
INVARIANTS ResultsAccount SubscribedIsServed SameOrder
PROPERTIES CallsEnd AcceptedIsHandled
CHECK_DEADLOCK FALSE
