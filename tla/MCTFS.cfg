\* One upload, one saved response, two downloads and a forwarding call, each name used by one writer; one restart.
SPECIFICATION FairSpec
CONSTANTS
  u1 = u1  u2 = u2  s1 = s1  f1 = f1  a = a  b = b  c = c
  Uploaders = {u1}
  Savers = {s1}
  Getters = {1, 2}
  Forwarders = {f1}
  Takers = 2  Sources = {a, c, None}
  Ids = {a, b, c}
  IdOf <- Apart
  None = None
INVARIANTS
  TypeOK
  NothingPartialLeaves
  KeptUntilTaken
  GoneOnceDelivered
PROPERTIES
  FilesLeave
CHECK_DEADLOCK FALSE
