SPECIFICATION FairSpec
CONSTANTS
  c1 = c1
  c2 = c2
  Nobody = Nobody
  Clients = {c1, c2}
  Closed = {c2}
  FirstVersion <- LaterForTheSecond
  MaxVersion = 2
  Window = 1
  Faults = {"database", "process", "network"}
INVARIANTS
  TypeOK
  SubscriberMissesNoPush
  RoundServesEverySession
PROPERTIES
  OnlyLateAnswersLag
  SilentSessionsRest
  PromisesAreKept
  RoundsGoOn
  PollingClientCatchesUp
