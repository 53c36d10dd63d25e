SPECIFICATION Spec
CONSTANTS
  c1 = c1
  c2 = c2
  Nobody = Nobody
  Clients = {c1}
  Closed = {}
  FirstVersion <- FromTheFirst
  MaxVersion = 2
  Window = 2
  Faults = {}
INVARIANTS
  SubscribeShowsCurrent
