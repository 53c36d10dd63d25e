SPECIFICATION FairSpec
CONSTANTS
  c1 = c1
  c2 = c2
  Nobody = Nobody
  Clients = {c1}
  Closed = {}
  FirstVersion <- FromTheFirst
  MaxVersion = 1
  Window = 3
  Faults = {}
PROPERTIES
  PassiveClientIsPushed
