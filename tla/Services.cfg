SPECIFICATION ServicesSpec
CONSTANTS
  Duties = {0, 1}
  RawDuties = {0, 1}
  MaxSessions = 2
  Positions = {7, 8}
  Wrap = 8
  Failures = TRUE
  ChargerSettings = {"precharge", "voltage", "termination"}
  ChargeCurrent = 5
  MaxChargeCurrent = 3
  Override = FALSE
  PcbChargeLimit = 4
  AdapterLimits = {1, 2}
  CriticalRounds = 3
  Protocols = {"UBX", "NMEA"}
  Uarts = {0, 1, 9}
  Bauds = {921600}
  BadUarts = {9}
  VERSION = 1
  MaxFaults = 2
  MaxConfigs = 2
  NoDriver = NoDriver
  Absent = Absent
  Empty = Empty
INVARIANTS
  AtMostOneStalePacket
  HealthyHasStatus
  ConfiguredMeansSet
  RunsAsConfigured
  SaveAllOrNothing
PROPERTIES
  DutyReachesEsc
  SetDutyReturns
  RawModeEnds
  TwistExact
  SilenceNoticed
  CriticalBatterySwitchesOff
  GpsSettles
