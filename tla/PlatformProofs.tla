--------------------------- MODULE PlatformProofs ---------------------------
(***************************************************************************)
(* Proofs about PowerService, for any charger settings, currents and       *)
(* number of critical rounds, and about GpsSettings, for any settings and  *)
(* any number of flash errors, power losses and configurations.            *)
(***************************************************************************)
EXTENDS MCServices, TLAPS

-----------------------------------------------------------------------------
(***************************************************************************)
(* The charger.                                                            *)
(***************************************************************************)

\* What ConfiguredMeansSet asks of the charger's registers.
IsSet(c) == c.written = ChargerSettings /\ c.pin_off /\ c.ichg # RESET

\* The limits written to the charger are currents.
LEMMA LimitsPositive ==
    /\ SoftwareChargeCurrent \in Nat \ {0}
    /\ Least(PcbChargeLimit, ChargeCurrent) \in Nat \ {0}
BY PowerAssumption DEF SoftwareChargeCurrent, Least

\* The answer and the registers of a result.
LEMMA ResultFields ==
    ASSUME NEW answer, NEW registers
    PROVE  Result(answer, registers).ok = answer /\ Result(answer, registers).chip = registers
BY DEF Result

\* A charge current or an adapter current leaves a charger that is set so,
\* whichever transfer fails.
LEMMA CurrentResults ==
    ASSUME NEW c \in Chip, NEW amps \in Nat \ {0}, NEW r \in SetChargingCurrentResults(c, amps)
    PROVE  /\ r.chip \in Chip
           /\ r.chip.expired = c.expired /\ r.chip.written = c.written
           /\ IsSet(c) => IsSet(r.chip)
           /\ r.ok => r.chip.pin_off /\ r.chip.ichg # RESET
<1> USE DEF Chip, IsSet
<1>0. \/ r = Result(FALSE, c)
      \/ r = Result(FALSE, [c EXCEPT !.pin_off = TRUE])
      \/ r = Result(TRUE, [c EXCEPT !.pin_off = TRUE, !.ichg = amps])
    BY Zenon DEF SetChargingCurrentResults
<1>1. CASE r = Result(FALSE, c)
    <2>1. ~r.ok
        BY ONLY <1>1, ResultFields, ZenonT(30)
    <2>2. r.chip = c
        BY ONLY <1>1, ResultFields, ZenonT(30)
    <2> QED
        BY <2>1, <2>2
<1>2. CASE r = Result(FALSE, [c EXCEPT !.pin_off = TRUE])
    <2>1. ~r.ok
        BY ONLY <1>2, ResultFields, ZenonT(30)
    <2>2. r.chip = [c EXCEPT !.pin_off = TRUE]
        BY ONLY <1>2, ResultFields, ZenonT(30)
    <2> QED
        BY <2>1, <2>2
<1>3. CASE r = Result(TRUE, [c EXCEPT !.pin_off = TRUE, !.ichg = amps])
    <2>1. r.ok = TRUE /\ r.chip = [c EXCEPT !.pin_off = TRUE, !.ichg = amps]
        BY ONLY <1>3, ResultFields, ZenonT(30)
    <2> QED
        BY <2>1 DEF RESET
<1> QED
    BY <1>0, <1>1, <1>2, <1>3, Zenon

LEMMA AdapterResults ==
    ASSUME NEW c \in Chip, NEW amps \in Nat \ {0}, NEW r \in SetAdapterCurrentResults(c, amps)
    PROVE  r.chip \in Chip /\ r.chip.expired = c.expired /\ (IsSet(c) => IsSet(r.chip))
BY DEF SetAdapterCurrentResults, Result, Chip, IsSet

\* OnPowerManagement leaves a configured charger configured and, while its
\* watchdog has not reset it, set.
LEMMA CallbackKeepsSet ==
    ASSUME PowerTypeOK, NEW c \in Chip, NEW configured \in BOOLEAN, Callback(configured, c)
    PROVE  /\ chip' \in Chip
           /\ chip'.expired = c.expired
           /\ IsSet(c) => IsSet(chip')
           /\ last_adapter_limit' \in AdapterLimits \cup {0}
           /\ last_charge_limit' \in {0, Least(PcbChargeLimit, ChargeCurrent)}
<1> DEFINE charge_limit == Least(PcbChargeLimit, ChargeCurrent)
<1>1. CASE chip' = c /\ UNCHANGED cacheVars
    BY <1>1 DEF PowerTypeOK, cacheVars
<1>2. ASSUME NEW adapter_limit \in AdapterLimits,
             NEW a \in IF adapter_limit # last_adapter_limit
                       THEN SetAdapterCurrentResults(c, adapter_limit) ELSE {Result(TRUE, c)},
             NEW b \in IF charge_limit # last_charge_limit
                       THEN SetChargingCurrentResults(a.chip, charge_limit) ELSE {a},
             chip' = b.chip, last_adapter_limit' = adapter_limit, last_charge_limit' = charge_limit
      PROVE  /\ chip' \in Chip
             /\ chip'.expired = c.expired
             /\ IsSet(c) => IsSet(chip')
             /\ last_adapter_limit' \in AdapterLimits \cup {0}
             /\ last_charge_limit' \in {0, charge_limit}
    <2>1. adapter_limit \in Nat \ {0}
        BY PowerAssumption
    <2>2. a.chip \in Chip /\ a.chip.expired = c.expired /\ (IsSet(c) => IsSet(a.chip))
        <3>1. CASE adapter_limit # last_adapter_limit
            BY <2>1, <3>1, AdapterResults
        <3>2. CASE adapter_limit = last_adapter_limit
            BY <3>2 DEF Result
        <3> QED
            BY <3>1, <3>2
    <2>3. b.chip \in Chip /\ b.chip.expired = c.expired /\ (IsSet(c) => IsSet(b.chip))
        <3>1. CASE charge_limit # last_charge_limit
            BY <2>2, <3>1, CurrentResults, LimitsPositive
        <3>2. CASE charge_limit = last_charge_limit
            BY <2>2, <3>2
        <3> QED
            BY <3>1, <3>2
    <2> QED
        BY <1>2, <2>3
<1> QED
    BY <1>1, <1>2 DEF Callback, OnPowerManagement

\* update_charger_: a configuration that succeeds leaves a charger that is set,
\* one that fails at any transfer leaves a charger.
LEMMA ConfigureSets ==
    ASSUME NEW c \in Chip, NEW r \in ConfigureResults(c)
    PROVE  r.chip \in Chip /\ r.ok \in BOOLEAN /\ (r.ok => IsSet(r.chip))
<1>1. ResetChip \in Chip
    BY DEF ResetChip, Chip, RESET
<1>2. \A init \in InitResults(c) : init.chip \in Chip /\ init.ok \in BOOLEAN
    <2> SUFFICES ASSUME NEW init \in InitResults(c)
                 PROVE  init.chip \in Chip /\ init.ok \in BOOLEAN
        OBVIOUS
    <2>1. init = Result(FALSE, c) \/ \E ok \in BOOLEAN : init = Result(ok, ResetChip)
        BY Zenon DEF InitResults
    <2>2. CASE init = Result(FALSE, c)
        BY <2>2, ResultFields
    <2>3. ASSUME NEW ok \in BOOLEAN, init = Result(ok, ResetChip)
          PROVE  init.chip \in Chip /\ init.ok \in BOOLEAN
        BY <1>1, <2>3, ResultFields
    <2> QED
        BY <2>1, <2>2, <2>3
<1>3. CASE r \in {x \in InitResults(c) : ~x.ok}
    BY <1>2, <1>3
<1>4. ASSUME NEW init \in InitResults(c), NEW written \in SUBSET ChargerSettings,
             NEW cur \in SetChargingCurrentResults(init.chip, SoftwareChargeCurrent),
             r = ConfigureResult(cur, written)
      PROVE  r.chip \in Chip /\ r.ok \in BOOLEAN /\ (r.ok => IsSet(r.chip))
    <2>1. /\ cur.chip \in Chip
          /\ cur.ok => cur.chip.pin_off /\ cur.chip.ichg # RESET
        BY <1>2, CurrentResults, LimitsPositive
    <2>2. r.chip = [cur.chip EXCEPT !.written = written]
        BY <1>4, ResultFields DEF ConfigureResult
    <2>3. r.ok = (cur.ok /\ written = ChargerSettings)
        BY <1>4, ResultFields DEF ConfigureResult
    <2>4. r.chip \in Chip /\ r.chip.written = written
          /\ r.chip.pin_off = cur.chip.pin_off /\ r.chip.ichg = cur.chip.ichg
        BY <2>1, <2>2 DEF Chip
    <2> QED
        BY <2>1, <2>3, <2>4, Zenon DEF IsSet
<1> QED
    BY <1>3, <1>4 DEF ConfigureResults

PowerInv == PowerTypeOK /\ ConfiguredMeansSet

\* The service starts with a charger as the reset leaves it.
LEMMA PowerInitInv == PowerInit => PowerInv
<1> SUFFICES ASSUME PowerInit PROVE PowerInv
    OBVIOUS
<1>1. ResetChip \in Chip
    BY DEF ResetChip, Chip, RESET
<1>2. 0 \in 0..(CriticalRounds + 1)
    BY PowerAssumption
<1>3. PowerTypeOK
    BY <1>1, <1>2, Zenon DEF PowerInit, PowerTypeOK
<1>4. ConfiguredMeansSet
    BY DEF PowerInit, ConfiguredMeansSet
<1> QED
    BY <1>3, <1>4 DEF PowerInv

\* The count of critical rounds does not pass its limit.
LEMMA CountType ==
    ASSUME PowerTypeOK PROVE CriticalCount \in 0..(CriticalRounds + 1)
BY PowerAssumption DEF PowerTypeOK, CriticalCount, Least

\* Every tick, start, stop and reset of the charger keeps the invariant.
LEMMA PowerStep == PowerInv /\ [PowerNext]_powerVars => PowerInv'
<1> SUFFICES ASSUME PowerTypeOK, ConfiguredMeansSet, [PowerNext]_powerVars
             PROVE  PowerTypeOK' /\ ConfiguredMeansSet'
    BY DEF PowerInv
<1> USE DEF serviceVars, cacheVars
<1>1. CASE ConfigureCharger
    <2>1. PICK r \in ConfigureResults(chip) :
             charger_configured' = r.ok /\ Callback(r.ok, r.chip)
        BY <1>1 DEF ConfigureCharger
    <2>2. r.chip \in Chip /\ r.ok \in BOOLEAN /\ (r.ok => IsSet(r.chip))
        BY ConfigureSets DEF PowerTypeOK
    <2>3. /\ chip' \in Chip
          /\ IsSet(r.chip) => IsSet(chip')
          /\ last_adapter_limit' \in AdapterLimits \cup {0}
          /\ last_charge_limit' \in {0, Least(PcbChargeLimit, ChargeCurrent)}
        BY <2>1, <2>2, CallbackKeepsSet
    <2>4. UNCHANGED <<sabo, started, critical_count, high_level_en, battery_low>>
        BY <1>1 DEF ConfigureCharger
    <2>5. PowerTypeOK'
        BY <2>1, <2>2, <2>3, <2>4, Zenon DEF PowerTypeOK
    <2>6. ConfiguredMeansSet'
        BY <2>1, <2>2, <2>3 DEF ConfiguredMeansSet, IsSet
    <2> QED
        BY <2>5, <2>6
<1>2. CASE MonitorOk
    <2>1. /\ charger_configured /\ CheckBattery /\ Callback(TRUE, chip)
          /\ UNCHANGED <<sabo, started, charger_configured, battery_low>>
        BY <1>2 DEF MonitorOk
    <2>2. /\ chip' \in Chip /\ chip'.expired = chip.expired
          /\ IsSet(chip) => IsSet(chip')
          /\ last_adapter_limit' \in AdapterLimits \cup {0}
          /\ last_charge_limit' \in {0, Least(PcbChargeLimit, ChargeCurrent)}
        BY <2>1, CallbackKeepsSet DEF PowerTypeOK
    <2>3. critical_count' \in 0..(CriticalRounds + 1)
        BY <2>1, CountType DEF CheckBattery
    <2>4. high_level_en' \in BOOLEAN
        BY <2>1, Zenon DEF CheckBattery
    <2>5. PowerTypeOK'
        BY <2>1, <2>2, <2>3, <2>4, Zenon DEF PowerTypeOK
    <2>6. ConfiguredMeansSet'
        BY <2>1, <2>2 DEF ConfiguredMeansSet, IsSet
    <2> QED
        BY <2>5, <2>6
<1>3. CASE MonitorFails
    <2>1. PowerTypeOK'
        BY <1>3, Zenon DEF MonitorFails, PowerTypeOK
    <2> QED
        BY <1>3, <2>1 DEF MonitorFails, ConfiguredMeansSet
<1>4. CASE PowerOnStart
    <2>1. PowerTypeOK'
        BY <1>4, Zenon DEF PowerOnStart, PowerTypeOK
    <2> QED
        BY <1>4, <2>1 DEF PowerOnStart, ConfiguredMeansSet
<1>5. CASE PowerOnStop
    <2>1. PowerTypeOK'
        BY <1>5, Zenon DEF PowerOnStop, PowerTypeOK
    <2> QED
        BY <1>5, <2>1 DEF PowerOnStop, ConfiguredMeansSet
<1>6. CASE WatchdogExpires
    <2>1. chip' = [ResetChip EXCEPT !.expired = TRUE] /\ UNCHANGED <<serviceVars, cacheVars, battery_low>>
        BY <1>6 DEF WatchdogExpires
    <2>2. chip' \in Chip /\ chip'.expired
        BY <2>1 DEF ResetChip, Chip, RESET
    <2>3. PowerTypeOK'
        BY <2>1, <2>2, Zenon DEF PowerTypeOK
    <2> QED
        BY <2>2, <2>3 DEF ConfiguredMeansSet
<1>7. CASE BatteryChanges
    <2>1. PowerTypeOK'
        BY <1>7, Zenon DEF BatteryChanges, PowerTypeOK
    <2> QED
        BY <1>7, <2>1 DEF BatteryChanges, ConfiguredMeansSet
<1>8. CASE UNCHANGED powerVars
    <2>1. PowerTypeOK'
        BY <1>8, Zenon DEF powerVars, PowerTypeOK
    <2> QED
        BY <1>8, <2>1 DEF powerVars, ConfiguredMeansSet
<1> QED
    BY <1>1, <1>2, <1>3, <1>4, <1>5, <1>6, <1>7, <1>8 DEF PowerNext

(***************************************************************************)
(* update_charger_ and the Sabo robot's OnPowerManagement: a charger that  *)
(* the service calls configured has every setting, whichever transfers     *)
(* failed before, unless its own watchdog has reset it.                    *)
(***************************************************************************)
THEOREM ChargerIsSet == PowerSpec => []ConfiguredMeansSet
<1>1. PowerInv => ConfiguredMeansSet
    BY DEF PowerInv
<1> QED
    BY <1>1, PowerInitInv, PowerStep, PTL DEF PowerSpec

-----------------------------------------------------------------------------
(***************************************************************************)
(* The GPS settings.                                                       *)
(***************************************************************************)

\* What the place in OnStart, Save and the boot says of the rest.
StepInv ==
    /\ gpsStep = "boot" => service = "stopped"
    /\ gpsStep \in Steps \cup {"reset"} => service = "starting"
    /\ gpsStep = "sync" => buffer = Contents
    /\ gpsStep # "reset" => ~unseen

GpsInv == GpsTypeOK /\ StepInv /\ RunsAsConfigured /\ SaveAllOrNothing

\* Load yields settings, whatever the file holds, and those of a file Save wrote.
LEMMA LoadType == ASSUME NEW f \in Files PROVE Load(f) \in Settings
BY GpsConstants DEF Files, Load

LEMMA LoadContents ==
    ASSUME config \in Settings PROVE Contents \in Files \ {Absent, Empty} /\ Load(Contents) = config
<1>1. Contents \in [version : 1..(VERSION + 1), data : Settings]
    BY GpsConstants DEF Contents
<1>2. Contents \notin {Absent, Empty}
    BY <1>1, GpsConstants
<1>3. Contents.version = VERSION /\ Contents.data = config /\ ~(VERSION > VERSION)
    BY GpsConstants DEF Contents
<1> QED
    BY <1>1, <1>2, <1>3 DEF Files, Load

\* The first boot finds a settings file or none.
LEMMA GpsInitInv == GpsInit => GpsInv
<1> SUFFICES ASSUME GpsInit PROVE GpsInv
    OBVIOUS
<1>1. file \in Files /\ Empty \in Files \ {Absent}
    BY GpsConstants DEF GpsInit, Files
<1>2. 0 \in 0..MaxFaults /\ 0 \in 0..MaxConfigs
    BY GpsConstants
<1>3. GpsTypeOK
    BY <1>1, <1>2, Zenon DEF GpsInit, GpsTypeOK
<1> QED
    BY <1>3 DEF GpsInit, GpsInv, StepInv, Steps, RunsAsConfigured, SaveAllOrNothing

\* The types are kept.
LEMMA GpsTypeStep == GpsTypeOK /\ StepInv /\ [GpsNext]_gpsVars => GpsTypeOK'
<1> SUFFICES ASSUME GpsTypeOK, StepInv, [GpsNext]_gpsVars PROVE GpsTypeOK'
    OBVIOUS
<1> USE GpsConstants DEF GpsTypeOK, Steps
<1>1. ASSUME NEW s \in Settings PROVE StartedDriver(s) \in Settings \cup {NoDriver}
    BY DEF StartedDriver
<1>2. ASSUME NEW f \in Files PROVE BootDriver(f) \in Settings \cup {NoDriver}
    BY <1>1, LoadType DEF BootDriver
<1>3. Absent \in Files /\ Empty \in Files \ {Absent}
    BY DEF Files
<1>4. CASE Boot
    BY <1>2, <1>4 DEF Boot, BootFrom
<1>5. CASE BootReformats
    BY <1>2, <1>3, <1>5 DEF BootReformats, BootFrom
<1>6. ASSUME NEW s \in Settings, Configure(s) PROVE GpsTypeOK'
    BY <1>6 DEF Configure
<1>7. CASE ConfigureAgain
    BY <1>7 DEF ConfigureAgain
<1>8. CASE GpsOnStart
    BY <1>1, <1>8 DEF GpsOnStart, StartReturns
<1>9. CASE SaveMkdir
    <2>1. faults' \in 0..MaxFaults
        BY <1>9 DEF SaveMkdir, Works, Unseen, FlashFails
    <2> QED
        BY <1>3, <1>9, <2>1, Zenon DEF SaveMkdir, Works, Unseen, FlashFails
<1>10. CASE SaveOpen
    <2>1. faults' \in 0..MaxFaults
        BY <1>10 DEF SaveOpen, Works, Unseen, FlashFails
    <2> QED
        BY <1>3, <1>10, <2>1, Zenon DEF SaveOpen, Works, Unseen, FlashFails
<1>11. CASE SaveWrite
    BY <1>11, LoadContents DEF SaveWrite, Works, FlashFails, WriteFails, StartReturns
<1>12. CASE SaveSync
    <2>1. faults' \in 0..MaxFaults
        BY <1>12 DEF SaveSync, Works, Unseen, FlashFails
    <2> QED
        BY <1>3, <1>12, <2>1, Zenon DEF SaveSync, Works, Unseen, FlashFails
<1>13. CASE SystemReset
    BY <1>3, <1>13 DEF SystemReset, Restarts
<1>14. CASE PowerLoss
    <2>1. faults' \in 0..MaxFaults
        BY <1>14 DEF PowerLoss, Restarts
    <2> QED
        BY <1>3, <1>14, <2>1, Zenon DEF PowerLoss, Restarts
<1>15. CASE UNCHANGED gpsVars
    BY <1>15 DEF gpsVars
<1> QED
    BY <1>4, <1>5, <1>6, <1>7, <1>8, <1>9, <1>10, <1>11, <1>12, <1>13, <1>14, <1>15
    DEF GpsNext, Firmware

\* Every step of the firmware, the host and the flash keeps the rest.
LEMMA GpsInvStep == GpsInv /\ [GpsNext]_gpsVars => GpsInv'
<1> SUFFICES ASSUME GpsInv, [GpsNext]_gpsVars
             PROVE  StepInv' /\ RunsAsConfigured' /\ SaveAllOrNothing'
    BY GpsTypeStep DEF GpsInv
<1> USE DEF GpsInv, StepInv, Steps, RunsAsConfigured, SaveAllOrNothing
<1>1. CASE Boot
    BY <1>1 DEF Boot, BootFrom
<1>2. CASE BootReformats
    BY <1>2 DEF BootReformats, BootFrom
<1>3. ASSUME NEW s \in Settings, Configure(s)
      PROVE  StepInv' /\ RunsAsConfigured' /\ SaveAllOrNothing'
    BY <1>3 DEF Configure
<1>4. CASE ConfigureAgain
    BY <1>4 DEF ConfigureAgain
<1>5. CASE GpsOnStart
    <2>1. CASE driver = NoDriver
        <3>1. /\ driver' = StartedDriver(config) /\ gpsStep' = "main"
              /\ service' = IF config.uart \notin BadUarts THEN "running" ELSE "refused"
              /\ config' = config /\ unseen' = unseen /\ ~unseen
            BY <1>5, <2>1 DEF GpsOnStart, StartReturns
        <3> QED
            BY <3>1 DEF StartedDriver
    <2>2. CASE driver # NoDriver /\ ~SettingsChanged(driver, config)
        <3>1. /\ driver' = driver /\ gpsStep' = "main" /\ config' = config
              /\ unseen' = unseen /\ ~unseen
            BY <1>5, <2>2 DEF GpsOnStart, StartReturns
        <3>2. driver = config
            BY <2>2 DEF SettingsChanged, GpsTypeOK, Settings
        <3> QED
            BY <3>1, <3>2
    <2>3. CASE driver # NoDriver /\ SettingsChanged(driver, config)
        BY <1>5, <2>3 DEF GpsOnStart, Load
    <2> QED
        BY <1>5, <2>1, <2>2, <2>3 DEF GpsOnStart
<1>6. CASE SaveMkdir
    BY <1>6 DEF SaveMkdir, Works, Unseen, FlashFails, Load
<1>7. CASE SaveOpen
    <2>1. Load(file)' = Load(file) /\ Load(old)' = Load(old)
        BY <1>7 DEF SaveOpen, Load
    <2> QED
        BY <1>7, <2>1 DEF SaveOpen, Works, Unseen, FlashFails
<1>8. CASE SaveWrite
    BY <1>8 DEF SaveWrite, Works, FlashFails, WriteFails, StartReturns, Contents, Load
<1>9. CASE SaveSync
    <2>1. /\ gpsStep' = "reset" /\ service' = service /\ config' = config
          /\ service = "starting" /\ buffer = Contents
        BY <1>9 DEF SaveSync
    <2>2. CASE file' = buffer /\ Works
        <3>1. file' = Contents
            BY <2>1, <2>2
        <3>2. Load(file') = config'
            BY <2>1, <3>1, LoadContents DEF GpsTypeOK
        <3>3. Load(file)' = config'
            BY <3>2 DEF Load
        <3>4. ~unseen'
            BY <1>9, <2>2 DEF SaveSync, Works
        <3> QED
            BY <2>1, <3>3, <3>4
    <2>3. CASE UNCHANGED file /\ Unseen
        BY <1>9, <2>1, <2>3 DEF SaveSync, Unseen, Load
    <2> QED
        BY <1>9, <2>2, <2>3 DEF SaveSync, Unseen
<1>10. CASE SystemReset
    BY <1>10 DEF SystemReset, Restarts
<1>11. CASE PowerLoss
    BY <1>11 DEF PowerLoss, Restarts
<1>12. CASE UNCHANGED gpsVars
    BY <1>12 DEF gpsVars, Contents, Load
<1> QED
    BY <1>1, <1>2, <1>3, <1>4, <1>5, <1>6, <1>7, <1>8, <1>9, <1>10, <1>11, <1>12
    DEF GpsNext, Firmware

(***************************************************************************)
(* OnStart, Save, boot and reset: what each step leaves for the next one,  *)
(* with any number of flash errors, power losses and configurations.       *)
(***************************************************************************)
THEOREM GpsInvariant == GpsSpec => []GpsInv
<1> QED
    BY GpsInitInv, GpsInvStep, PTL DEF GpsSpec

(***************************************************************************)
(* A GPS service that reports itself started has its driver on the         *)
(* configured protocol, port and baud rate.                                *)
(***************************************************************************)
THEOREM DriverAsConfigured == GpsSpec => []RunsAsConfigured
<1>1. GpsInv => RunsAsConfigured
    BY DEF GpsInv
<1> QED
    BY <1>1, GpsInvariant, PTL

(***************************************************************************)
(* Save is all or nothing, with every flash error and power loss there can *)
(* be: as long as it runs a boot loads the settings from before the call;  *)
(* when it has led to the reset a boot loads the new ones, or the old ones *)
(* if it was mkdirp, open or sync that failed.                             *)
(***************************************************************************)
THEOREM SaveIsAllOrNothing == GpsSpec => []SaveAllOrNothing
<1>1. GpsInv => SaveAllOrNothing
    BY DEF GpsInv
<1> QED
    BY <1>1, GpsInvariant, PTL

(***************************************************************************)
(* Both services keep their state within its types, in the specification   *)
(* the runs check.                                                         *)
(***************************************************************************)
THEOREM PlatformTypeCorrect == ServicesSpec => []PlatformTypeOK
<1>1. ServicesInit => PowerInv /\ GpsInv
    BY PowerInitInv, GpsInitInv DEF ServicesInit
<1>2. PowerInv /\ GpsInv /\ [ServicesNext]_servicesVars => (PowerInv /\ GpsInv)'
    <2>1. [ServicesNext]_servicesVars => [PowerNext]_powerVars /\ [GpsNext]_gpsVars
        BY DEF ServicesNext, servicesVars
    <2> QED
        BY <2>1, PowerStep, GpsInvStep
<1>3. PowerInv /\ GpsInv => PlatformTypeOK
    BY DEF PowerInv, GpsInv, PlatformTypeOK
<1> QED
    BY <1>1, <1>2, <1>3, PTL DEF ServicesSpec
=============================================================================
