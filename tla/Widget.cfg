SPECIFICATION Spec
CONSTANTS
  None = None
  Loading = Loading
  NoResult = NoResult
  Settings = {A, B}
  MaxFlows = 2
INVARIANTS
  TypeOK
  OwnSessionIsFollowed
  ShowsTheSession
  OneSessionFollowed

PROPERTIES
  SessionIsKept
