---------------------------- MODULE PowerService ----------------------------
(***************************************************************************)
(* The power service: configuring and monitoring the battery charger over  *)
(* I2C, switching the high level computer off when the battery is          *)
(* critical, and the Sabo robot's adjustment of the charger's limits.      *)
(* Everything runs on the service's thread, one driver tick per second;    *)
(* any I2C transfer of a tick may fail.                                    *)
(***************************************************************************)
EXTENDS Integers, FiniteSets

CONSTANTS
    ChargerSettings,          \* what is written besides the charge current
    ChargeCurrent,     \* the user's charge current
    MaxChargeCurrent,  \* Power_GetMaxChargeCurrent
    Override,          \* DangerouslyOverrideHardwareChargeCurrentLimit
    PcbChargeLimit,    \* Sabo: limits->max_charge_current
    AdapterLimits,     \* Sabo: limits that follow from the measured currents
    CriticalRounds     \* 10

ASSUME PowerAssumption ==
    /\ ChargeCurrent \in Nat \ {0} /\ MaxChargeCurrent \in Nat \ {0}
    /\ PcbChargeLimit \in Nat \ {0}
    /\ AdapterLimits \subseteq Nat \ {0}
    /\ CriticalRounds \in Nat
    /\ Override \in BOOLEAN

RESET == 0             \* a charger register as the reset leaves it

VARIABLES
    sabo,              \* the robot has a power management callback
    started,           \* the service is started
    charger_configured,
    critical_count,    \* counts to CriticalRounds + 1, the code's counter goes on
    high_level_en,     \* LINE_HIGH_LEVEL_GLOBAL_EN
    last_adapter_limit, last_charge_limit,   \* statics of OnPowerManagement
    chip,              \* the charger's registers
    battery_low        \* environment: the battery is below the minimum voltage

serviceVars == <<sabo, started, charger_configured, critical_count, high_level_en>>
cacheVars == <<last_adapter_limit, last_charge_limit>>
powerVars == <<serviceVars, cacheVars, chip, battery_low>>

Least(a, b) == IF a <= b THEN a ELSE b

Chip == [written : SUBSET ChargerSettings,    \* settings written since the reset
         pin_off : BOOLEAN,            \* the ICHG pin's hardware limit is switched off
         ichg    : Nat,                \* charge current limit
         iac     : Nat,                \* adapter current limit
         expired : BOOLEAN]            \* the watchdog has reset it

ResetChip == [written |-> {}, pin_off |-> FALSE, ichg |-> RESET, iac |-> RESET, expired |-> FALSE]

PowerInit ==
    /\ sabo \in BOOLEAN
    /\ started = FALSE
    /\ charger_configured = FALSE
    /\ critical_count = 0
    /\ high_level_en = TRUE
    /\ last_adapter_limit = 0
    /\ last_charge_limit = 0
    /\ chip = ResetChip
    /\ battery_low \in BOOLEAN
-----------------------------------------------------------------------------
(***************************************************************************)
(* The charger driver.  An operation yields one of several results,        *)
(* according to the transfer that fails: the answer and the registers.     *)
(***************************************************************************)

Result(answer, registers) == [ok |-> answer, chip |-> registers]

\* The reset is sent even if the part was not recognised; what follows it may fail.
InitResults(c) ==
    {Result(FALSE, c)} \union {Result(ok, ResetChip) : ok \in BOOLEAN}

\* The hardware limit is switched off before the current is written.
SetChargingCurrentResults(c, amps) ==
    {Result(FALSE, c),
     Result(FALSE, [c EXCEPT !.pin_off = TRUE]),
     Result(TRUE, [c EXCEPT !.pin_off = TRUE, !.ichg = amps])}

SetAdapterCurrentResults(c, amps) ==
    {Result(FALSE, c), Result(TRUE, [c EXCEPT !.iac = amps])}
-----------------------------------------------------------------------------
(***************************************************************************)
(* update_charger_ of a charger that is not configured.                    *)
(***************************************************************************)

SoftwareChargeCurrent ==
    IF Override THEN ChargeCurrent ELSE Least(MaxChargeCurrent, ChargeCurrent)

\* Deviation: only the charge current's answer counts.
ConfigureResultsLast(c) ==
    {r \in InitResults(c) : ~r.ok} \union
    UNION {{Result(cur.ok, [cur.chip EXCEPT !.written = written]) :
                cur \in SetChargingCurrentResults(init.chip, SoftwareChargeCurrent),
                written \in SUBSET ChargerSettings} :
           init \in {r \in InitResults(c) : r.ok}}

\* The settings written and the result of the charge current make up the answer.
ConfigureResult(cur, written) ==
    Result(cur.ok /\ written = ChargerSettings, [cur.chip EXCEPT !.written = written])

\* All settings are tried, whichever of them fail.
ConfigureResults(c) ==
    {r \in InitResults(c) : ~r.ok} \union
    UNION {{ConfigureResult(cur, written) :
                cur \in SetChargingCurrentResults(init.chip, SoftwareChargeCurrent),
                written \in SUBSET ChargerSettings} :
           init \in {r \in InitResults(c) : r.ok}}

-----------------------------------------------------------------------------
(***************************************************************************)
(* SaboRobot::OnPowerManagement, called by a tick that leaves the charger  *)
(* configured.  The answers of the charger are not looked at.  A tick      *)
(* without a configured system current or a measured DC/DC current returns *)
(* early.                                                                  *)
(***************************************************************************)

OnPowerManagement(c) ==
    \/ /\ chip' = c
       /\ UNCHANGED cacheVars
    \/ \E adapter_limit \in AdapterLimits :
          LET charge_limit == Least(PcbChargeLimit, ChargeCurrent) IN
          /\ \E a \in IF adapter_limit # last_adapter_limit
                      THEN SetAdapterCurrentResults(c, adapter_limit) ELSE {Result(TRUE, c)} :
             \E b \in IF charge_limit # last_charge_limit
                      THEN SetChargingCurrentResults(a.chip, charge_limit) ELSE {a} :
                chip' = b.chip
          /\ last_adapter_limit' = adapter_limit
          /\ last_charge_limit' = charge_limit

Callback(configured, c) ==
    IF configured /\ sabo
    THEN OnPowerManagement(c)
    ELSE chip' = c /\ UNCHANGED cacheVars
-----------------------------------------------------------------------------
(***************************************************************************)
(* driver_tick_.                                                           *)
(***************************************************************************)

ConfigureCharger ==
    /\ ~charger_configured
    /\ \E r \in ConfigureResults(chip) :
          /\ charger_configured' = r.ok
          /\ Callback(r.ok, r.chip)
    /\ UNCHANGED <<sabo, started, critical_count, high_level_en, battery_low>>

CriticalCount ==
    IF battery_low THEN Least(critical_count + 1, CriticalRounds + 1) ELSE 0

Critical(count) == count > CriticalRounds

\* The last part of a monitoring round in which all transfers worked.
CheckBattery ==
    /\ critical_count' = CriticalCount
    /\ high_level_en' = (~battery_low \/ (high_level_en /\ ~Critical(critical_count')))

MonitorOk ==
    /\ charger_configured
    /\ CheckBattery
    /\ Callback(TRUE, chip)
    /\ UNCHANGED <<sabo, started, charger_configured, battery_low>>

\* Deviation: the failed round starts the count anew.
MonitorFailsUncounted ==
    /\ charger_configured
    /\ charger_configured' = FALSE
    /\ critical_count' = 0
    /\ UNCHANGED <<sabo, started, high_level_en, cacheVars, chip, battery_low>>

\* A transfer fails or the status is COMMS_ERROR: the battery is not looked at.
MonitorFails ==
    /\ charger_configured
    /\ charger_configured' = FALSE
    /\ UNCHANGED <<sabo, started, critical_count, high_level_en, cacheVars, chip, battery_low>>
-----------------------------------------------------------------------------
(* The driver schedule runs whether the service is started or not. *)
PowerOnStart ==
    /\ started' = TRUE
    /\ charger_configured' = FALSE
    /\ UNCHANGED <<sabo, critical_count, high_level_en, cacheVars, chip, battery_low>>

PowerOnStop ==
    /\ started
    /\ started' = FALSE
    /\ UNCHANGED <<sabo, charger_configured, critical_count, high_level_en, cacheVars, chip, battery_low>>

(* No tick for longer than the watchdog's period: the charger resets itself. *)
WatchdogExpires ==
    /\ ~chip.expired
    /\ chip' = [ResetChip EXCEPT !.expired = TRUE]
    /\ UNCHANGED <<serviceVars, cacheVars, battery_low>>

BatteryChanges ==
    /\ battery_low' = ~battery_low
    /\ UNCHANGED <<serviceVars, cacheVars, chip>>

PowerNext ==
    \/ ConfigureCharger \/ MonitorOk \/ MonitorFails
    \/ PowerOnStart \/ PowerOnStop
    \/ WatchdogExpires \/ BatteryChanges

PowerSpec == PowerInit /\ [][PowerNext]_powerVars

-----------------------------------------------------------------------------
(***************************************************************************)
(* Properties.                                                             *)
(***************************************************************************)

PowerTypeOK ==
    /\ sabo \in BOOLEAN /\ started \in BOOLEAN
    /\ charger_configured \in BOOLEAN
    /\ critical_count \in 0..(CriticalRounds + 1)
    /\ high_level_en \in BOOLEAN
    /\ last_adapter_limit \in AdapterLimits \union {0}
    /\ last_charge_limit \in {0, Least(PcbChargeLimit, ChargeCurrent)}
    /\ chip \in Chip
    /\ battery_low \in BOOLEAN

(***************************************************************************)
(* A configured charger, which IsHealthy reports, has every setting that   *)
(* update_charger_ writes, whichever transfers failed in this and in       *)
(* earlier attempts; only the charger's own watchdog can take them away.   *)
(***************************************************************************)
ConfiguredMeansSet ==
    charger_configured /\ ~chip.expired =>
        chip.written = ChargerSettings /\ chip.pin_off /\ chip.ichg # RESET

(***************************************************************************)
(* A battery that stays critical has the high level switched off in the    *)
(* end and for good, although rounds with errors, reconfigurations and     *)
(* restarts of the service come in between.                                *)
(***************************************************************************)
CriticalBatterySwitchesOff == <>[]battery_low => <>[]~high_level_en
=============================================================================
