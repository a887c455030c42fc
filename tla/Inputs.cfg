SPECIFICATION MCSpec
CONSTANTS
  MaxInputs = 4
  MaxGroups = 2
  LiftMultipleDelay = 0
  CollisionMultipleDelay = 0
  Wrap = 1
  Requests <- MCRequests
  PressDelays = {0}
  Delay = 1
  MaxTime = 2
  MaxUpdates = 3
  Gaps = {1, 2}
  HEARTBEAT_CHECK_INTERVAL = 6
  HEARTBEAT_MIN = 2
  TickPeriod = 2
  CounterRange = 16
  Channels = {"lift"}
  MaxQueue = 2
  MaxReloads = 2
  MaxFaults = 2
INVARIANTS
  CountersAgree
  MultipleNeedsTwo
  PressNoticed
  NoFalseStop
PROPERTIES
  LongPressReported
  PanelStateSeen
  GoneIsNoticed
