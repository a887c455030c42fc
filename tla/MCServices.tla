----------------------------- MODULE MCServices -----------------------------
(***************************************************************************)
(* One run for the services and the devices behind them: the duties a      *)
(* motor service sends to its ESCs (EscCommand), the reports it gets from  *)
(* them (DriveStatus), the charger (PowerService) and the GPS receiver     *)
(* (GpsSettings).  The models share no variable, so their interleavings    *)
(* add nothing: every behaviour moves one of them, chosen in the initial   *)
(* state, and leaves the others as they were initialised.                  *)
(***************************************************************************)
EXTENDS EscCommand, DriveStatus, PowerService, GpsSettings

VARIABLE part     \* the model that moves: "command", "status", "power" or "gps"

servicesVars == <<part, escVars, statusVars, powerVars, gpsVars>>

ServicesInit ==
    /\ part \in {"command", "status", "power", "gps"}
    /\ EscInit /\ StatusInit /\ PowerInit /\ GpsInit
    \* A model that does not move has one initial state.
    /\ part # "command" => yfr4
    /\ part # "power" => sabo /\ ~battery_low
    /\ part # "gps" => persistent /\ file = Absent /\ config = Default

ServicesNext ==
    \/ /\ part = "command" /\ EscNext
       /\ UNCHANGED <<part, statusVars, powerVars, gpsVars>>
    \/ /\ part = "status" /\ StatusNext
       /\ UNCHANGED <<part, escVars, powerVars, gpsVars>>
    \/ /\ part = "power" /\ PowerNext
       /\ UNCHANGED <<part, escVars, statusVars, gpsVars>>
    \/ /\ part = "gps" /\ GpsNext
       /\ UNCHANGED <<part, escVars, statusVars, powerVars>>
    \/ /\ part = "gps"     \* settled, or halted for good
       /\ service \in {"running", "refused"} \/ gpsStep = "halted"
       /\ UNCHANGED servicesVars

(***************************************************************************)
(* Fairness.  Every thread that shares an ESC's driver runs, and a mutex   *)
(* that is released is handed to a waiting thread (strong fairness).  The  *)
(* service repeats its duty in every tick.  A write to a client ends,      *)
(* unless the client is there and does not read.                           *)
(*                                                                         *)
(* The tick schedule of a running service fires 25 times before a recent   *)
(* pair is old and many more before the clock has wrapped: strong fairness *)
(* of a tick that finds the pair old.  Time passes, and an ESC that works  *)
(* reports.                                                                *)
(*                                                                         *)
(* The charger's ticks go on, and error-free ticks come again and again.   *)
(* The main and the GPS service's thread run and the host answers the      *)
(* request for a configuration; the flash owes nothing.                    *)
(***************************************************************************)
EscFairness ==
    /\ WF_escVars(part = "command" /\ Command(want))
    /\ SF_escVars(part = "command" /\ Service)
    /\ SF_escVars(part = "command" /\ HeartbeatThread)
    /\ SF_escVars(part = "command" /\ DebugThread)
    /\ WF_escVars(part = "command" /\ RawDataWritten /\ sock # "open")

StatusFairness ==
    /\ WF_statusVars(part = "status" /\ SecondPasses)
    /\ SF_statusVars(part = "status" /\ tick /\ ~recent)
    /\ \A s \in Sides : WF_statusVars(part = "status" /\ ESCCallback(s))

PowerFairness ==
    /\ SF_powerVars(part = "power" /\ ConfigureCharger /\ charger_configured')
    /\ SF_powerVars(part = "power" /\ MonitorOk)

GpsFairness ==
    /\ WF_gpsVars(part = "gps" /\ Firmware)
    /\ WF_gpsVars(part = "gps" /\ ConfigureAgain)

ServicesSpec ==
    /\ ServicesInit /\ [][ServicesNext]_servicesVars
    /\ EscFairness /\ StatusFairness /\ PowerFairness /\ GpsFairness

(***************************************************************************)
(* The state of the charger's and of the GPS model is of its types, the    *)
(* settings file with the version Save writes and the count of critical    *)
(* rounds included.                                                        *)
(***************************************************************************)
PlatformTypeOK == PowerTypeOK /\ GpsTypeOK

(***************************************************************************)
(* Settles, of the behaviours in which the GPS settings move: once the     *)
(* host stops sending new configurations, and power and flash stop         *)
(* failing, the board stops resetting itself.                              *)
(***************************************************************************)
GpsSettles == part = "gps" => Settles
=============================================================================
