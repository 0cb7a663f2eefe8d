SPECIFICATION Spec
CONSTANTS
  Entry = 10
  Risk = 5
  Cost = 1
  Tp1 = 5
  Tp2 = 7
  LiveSides = {"SHORT"}
  Prices <- MCPrices
  Noises <- MCNoises
  Trails <- MCTrails
  Signals <- MCSignals
  Initial = 4
  MaxCrashes = 1
INVARIANTS LockedIn CoreRemains PassEndsSafe
PROPERTIES StopNeverLoosens CoreExitJustified
