SPECIFICATION Spec
CONSTANTS
  Objects = {o1, o2}
  NoObject = NoObject
  Slots = {s1}
  Readable = {s1}
  Keys = {k1, k2}
  NoKey = NoKey
  Tokens = {t1, t2}
  NoToken = NoToken
  Stage = 1
  Window = 2
  ClaimLease = 1
  Retention = 1
  Request = 4
  Reading = 2
  Limit = 2
  Faults = 1
SYMMETRY ObjectSymmetry
CHECK_DEADLOCK FALSE
INVARIANT ReferencedIsStored
INVARIANT ReadFindsContent
PROPERTY ClaimIsExclusive
