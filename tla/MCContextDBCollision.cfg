SPECIFICATION DBSpec
CONSTANTS
  Nobody = Nobody
  None = None
  Torn = Torn
  c1 = c1
  c2 = c2
  alice = alice
  bob = bob
  A = A
  B = B
  Slots = {c1, c2}
  Clients = {alice, bob}
  Contexts <- MCContexts
  Payload <- MCPayload
  KV <- MCKV
  Hash <- MCCollidingHash
  MaxGeneration = 2
SYMMETRY Symmetry
INVARIANTS
  HandlesHonest
CHECK_DEADLOCK FALSE
