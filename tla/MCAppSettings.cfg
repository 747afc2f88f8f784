SPECIFICATION Spec
CONSTANTS
  NoText = "empty"
  Missing = "missing"
  Values <- MCValues
  Typed <- MCTyped
  AsLoaded <- MCAsLoaded
  CutsOf <- MCCutsOf
  DeviceOf <- MCDeviceOf
  FaultBudget = 2
  MaxEdits = 6
  MaxRequests = 4
INVARIANTS
  TypeOK
  TransfersAreChosen
  SettingsSurviveRestart
  RegistersOnce
