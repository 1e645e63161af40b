SPECIFICATION Spec
CONSTANTS
  a = a
  b = b
  Stranger = Stranger
  Absent = Absent
  Order <- TwoInOrder
  Primary = b
  Retries = 0
  MaxRevision = 1
  Arrivals <- Puts
  Reviews <- ReviewNames
  ObjectWishes <- NoWishes
  Names <- AllNames
INVARIANT
  IdentityStaysHome
CHECK_DEADLOCK FALSE
