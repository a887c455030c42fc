---------------------------- MODULE GpsSettings ----------------------------
(***************************************************************************)
(* How the GPS settings survive a reset.  The GPS driver is never stopped  *)
(* (heap fragmentation), so GpsService::OnStart reacts to a changed        *)
(* configuration by saving the settings and resetting the board; the Sabo  *)
(* robot starts the driver from the saved settings while it boots, and the *)
(* host then configures the service again.  The other robots save nothing  *)
(* and have no driver before OnStart.                                      *)
(*                                                                         *)
(* The flash may fail at each step of VersionedStruct::Save, the power may *)
(* fail between any two steps, and the file system may be reformatted by   *)
(* InitFS.  littlefs (external) makes a file's new contents durable at     *)
(* sync or close, except that opening a missing file creates it empty; it  *)
(* drops the buffered contents of a file whose write failed.               *)
(***************************************************************************)
EXTENDS Naturals

CONSTANTS
  Protocols, Uarts, Bauds,
  BadUarts,       \* indices for which GetUARTDriverByIndex returns nullptr
  VERSION,        \* GPSSettings::VERSION
  MaxFaults,      \* bound on flash errors, power losses and failed mounts
  MaxConfigs,     \* bound on configurations sent by the host
  NoDriver,       \* gps_driver_ is nullptr
  Absent, Empty   \* no settings file; one without contents

Settings == [protocol : Protocols, uart : Uarts, baudrate : Bauds]
Steps == {"mkdir", "open", "write", "sync"}

\* The member initialisers of GPSSettings.
Default == [protocol |-> "NMEA", uart |-> 0, baudrate |-> 921600]

Files == {Absent, Empty} \cup [version : 1..(VERSION + 1), data : Settings]

ASSUME GpsConstants ==
  /\ VERSION \in Nat \ {0} /\ MaxFaults \in Nat /\ MaxConfigs \in Nat
  /\ Default \in Settings /\ Default.uart \notin BadUarts
  /\ BadUarts \subseteq Uarts
  /\ Absent # Empty /\ NoDriver \notin Settings
  /\ {Absent, Empty} \cap [version : 1..(VERSION + 1), data : Settings] = {}

VARIABLES
  persistent,  \* TRUE for the Sabo robot, FALSE for the others
  file,     \* /cfg/sabo/gps.bin as a mount would find it
  buffer,   \* contents written to the open file, not yet durable
  driver,   \* settings gps_driver_ runs with, or NoDriver
  config,   \* the service's registers, written by the host
  service,  \* "stopped", "starting", "running", "refused" (OnStart was false)
  gpsStep,  \* "boot", "main", "halted", "reset" or the next step of Save
  unseen,   \* history: an error of the flash that Save does not report
  old,      \* history: the file when Save was called last
  faults, configs

gpsVars == <<persistent, file, buffer, driver, config, service, gpsStep, unseen,
             old, faults, configs>>

\* The first boot with any file: none, one of this firmware, or one a newer
\* firmware left behind.
GpsInit ==
  /\ persistent \in BOOLEAN
  /\ file \in {Absent} \cup [version : {VERSION, VERSION + 1}, data : {Default}]
  /\ config \in Settings
  /\ buffer = Empty /\ driver = NoDriver /\ service = "stopped"
  /\ gpsStep = "boot" /\ unseen = FALSE /\ old = file /\ faults = 0 /\ configs = 0

-----------------------------------------------------------------------------
\* VersionedStruct::Load on a struct that holds the defaults.
Load(f) ==
  IF f \in {Absent, Empty} \/ f.version > VERSION THEN Default ELSE f.data

\* The driver LoadAndStartGpsDriver leaves behind for settings s.
StartedDriver(s) == IF s.uart \in BadUarts THEN NoDriver ELSE s

\* Deviation: every robot starts the driver while it boots.
BootDriverAnyRobot(f) == StartedDriver(Load(f))

BootDriver(f) == IF persistent THEN StartedDriver(Load(f)) ELSE NoDriver

\* InitFS and InitPlatform: mount, then start the driver from the file.
BootFrom(f) ==
  /\ file' = f
  /\ driver' = BootDriver(f)
  /\ gpsStep' = "main"
  /\ UNCHANGED <<persistent, buffer, config, service, unseen, old, configs>>

Boot == gpsStep = "boot" /\ BootFrom(file) /\ UNCHANGED faults

\* The mount fails and InitFS formats the flash; if that fails as well, main
\* only logs the error from then on.
BootReformats ==
  /\ gpsStep = "boot" /\ faults < MaxFaults /\ faults' = faults + 1
  /\ \/ BootFrom(Absent)
     \/ /\ gpsStep' = "halted"
        /\ UNCHANGED <<persistent, file, buffer, driver, config, service, unseen, old, configs>>

-----------------------------------------------------------------------------
\* The host writes the registers, which stops a running service.
Configure(s) ==
  /\ gpsStep = "main" /\ configs < MaxConfigs
  /\ config' = s /\ service' = "starting" /\ configs' = configs + 1
  /\ UNCHANGED <<persistent, file, buffer, driver, gpsStep, unseen, old, faults>>

\* After a boot the service asks for its configuration and gets it again.
ConfigureAgain ==
  /\ gpsStep = "main" /\ service = "stopped"
  /\ service' = "starting"
  /\ UNCHANGED <<persistent, file, buffer, driver, config, gpsStep, unseen, old, faults, configs>>

\* Deviation: the UART is not compared.
SettingsChangedNotUart(a, b) ==
  a.protocol # b.protocol \/ a.baudrate # b.baudrate

SettingsChanged(a, b) ==
  a.protocol # b.protocol \/ a.uart # b.uart \/ a.baudrate # b.baudrate

\* The result of OnStart, with what the service runs with.
StartReturns(result, d) ==
  /\ driver' = d
  /\ service' = IF result THEN "running" ELSE "refused"
  /\ gpsStep' = "main"

\* GpsService::OnStart up to its result or the call of SaveGpsSettings.
GpsOnStart ==
  /\ gpsStep = "main" /\ service = "starting"
  /\ \/ /\ driver = NoDriver
        /\ StartReturns(config.uart \notin BadUarts, StartedDriver(config))
        /\ UNCHANGED old
     \/ /\ driver # NoDriver /\ ~SettingsChanged(driver, config)
        /\ StartReturns(TRUE, driver)
        /\ UNCHANGED old
     \/ /\ driver # NoDriver /\ SettingsChanged(driver, config)
        /\ gpsStep' = IF persistent THEN "mkdir" ELSE "reset"
        /\ old' = file
        /\ UNCHANGED <<driver, service>>
  /\ UNCHANGED <<persistent, file, buffer, config, unseen, faults, configs>>

-----------------------------------------------------------------------------
\* VersionedStruct::Save.  Its early returns at mkdirp and open hand the
\* negative error code to a bool, which is TRUE; sync's result is not read.
FlashFails == faults < MaxFaults /\ faults' = faults + 1
Unseen == FlashFails /\ unseen' = TRUE
Works == UNCHANGED <<faults, unseen>>

SaveMkdir ==
  /\ gpsStep = "mkdir"
  /\ \/ gpsStep' = "open" /\ Works
     \/ gpsStep' = "reset" /\ Unseen
  /\ UNCHANGED <<persistent, file, buffer, driver, config, service, old, configs>>

SaveOpen ==
  /\ gpsStep = "open"
  /\ \/ gpsStep' = "write" /\ file' = (IF file = Absent THEN Empty ELSE file) /\ Works
     \/ gpsStep' = "reset" /\ UNCHANGED file /\ Unseen
  /\ buffer' = Empty
  /\ UNCHANGED <<persistent, driver, config, service, old, configs>>

Contents == [version |-> VERSION, data |-> config]

\* Deviation: the number of bytes written is not looked at.
WriteUnchecked == gpsStep' = "reset" /\ UNCHANGED <<driver, service>>

\* Save and OnStart return false.
WriteFails == StartReturns(FALSE, driver)

SaveWrite ==
  /\ gpsStep = "write"
  /\ \/ /\ buffer' = Contents /\ UNCHANGED <<driver, service>>
        /\ gpsStep' = "sync" /\ Works
     \/ UNCHANGED <<buffer, unseen>> /\ FlashFails /\ WriteFails
  /\ UNCHANGED <<persistent, file, config, old, configs>>

SaveSync ==
  /\ gpsStep = "sync" /\ gpsStep' = "reset"
  /\ \/ file' = buffer /\ Works
     \/ UNCHANGED file /\ Unseen
  /\ UNCHANGED <<persistent, buffer, driver, config, service, old, configs>>

\* Everything in RAM is gone; the host still has its configuration.
Restarts ==
  /\ driver' = NoDriver /\ service' = "stopped" /\ gpsStep' = "boot" /\ buffer' = Empty
  /\ unseen' = FALSE
  /\ UNCHANGED <<persistent, file, config, old, configs>>

\* NVIC_SystemReset
SystemReset == gpsStep = "reset" /\ Restarts /\ UNCHANGED faults

PowerLoss == gpsStep # "boot" /\ faults < MaxFaults /\ faults' = faults + 1 /\ Restarts

Firmware == Boot \/ GpsOnStart \/ SaveMkdir \/ SaveOpen \/ SaveWrite \/ SaveSync \/ SystemReset

GpsNext ==
  \/ Firmware \/ ConfigureAgain \/ BootReformats \/ PowerLoss
  \/ \E s \in Settings : Configure(s)

GpsSpec == GpsInit /\ [][GpsNext]_gpsVars

-----------------------------------------------------------------------------
GpsTypeOK ==
  /\ file \in Files /\ old \in Files /\ buffer \in Files \ {Absent}
  /\ driver \in Settings \cup {NoDriver} /\ unseen \in BOOLEAN
  /\ config \in Settings
  /\ service \in {"stopped", "starting", "running", "refused"}
  /\ gpsStep \in {"boot", "main", "halted", "reset"} \cup Steps
  /\ faults \in 0..MaxFaults /\ configs \in 0..MaxConfigs

\* A service that reports itself started has its driver on the configured
\* protocol, port and baud rate, whichever of the three ways of OnStart and
\* however many resets led there.
RunsAsConfigured == service = "running" => driver = config

\* Save is all or nothing, whatever fails in it.  A power loss between two of
\* its steps leaves the settings a boot loads as they were; at the reset that
\* follows it they are the new ones, or, after an error of mkdirp, open or sync,
\* which Save takes for success, still those from before the call.
SaveAllOrNothing ==
  /\ gpsStep \in Steps => Load(file) = Load(old)
  /\ gpsStep = "reset" /\ persistent =>
        IF unseen THEN Load(file) = Load(old) ELSE Load(file) = config

\* Once the host stops sending new configurations, and power and flash stop
\* failing, the board stops resetting itself: the service ends up started or
\* refused.
Settles == <>[](service \in {"running", "refused"} \/ gpsStep = "halted")
=============================================================================
