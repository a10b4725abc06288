\* Two runs of `hand open`, one signal, no fault.
SPECIFICATION ServicesSpec
CONSTANTS
  Boards = {1, 2}
  Ports = {7777}
  DefaultPort = 7777
  Openers = {o1, o2}
  Attempts = 2
  MaxByHand = 0
  MaxStops = 1
  MaxFaults = 0
  MaxExits = 0
  None = None
INVARIANT AddressTold
CHECK_DEADLOCK FALSE
