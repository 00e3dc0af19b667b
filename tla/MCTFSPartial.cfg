\* Two uploads of the same name.
SPECIFICATION Spec
CONSTANTS
  u1 = u1  u2 = u2  s1 = s1  f1 = f1  a = a  b = b  c = c
  Uploaders = {u1, u2}
  Savers = {s1}
  Getters = {1, 2}
  Forwarders = {f1}
  Takers = 2  Sources = {a, c, None}
  Ids = {a, b, c}
  IdOf <- Same
  None = None
INVARIANTS
  NothingPartialLeaves
CHECK_DEADLOCK FALSE
