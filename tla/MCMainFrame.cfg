SPECIFICATION Spec
CONSTANTS
  Addr = {1, 2}
  MaxFails = 1
  Ghost = 3
  MaxLost = 1
  WordSpan = 65536
INVARIANTS MapRight ButtonsRight GridOwn IdsUnique
