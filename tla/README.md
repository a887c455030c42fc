# TLA+ specifications of the OpenMower v2 firmware

This directory specifies the safety core of `fw-openmower-v2` and the protocols of its
drivers in TLA+, checks them with TLC on small instances and proves the main invariants
with TLAPS for every instance. Paths below are relative to the repository root.

## 1. The system

The firmware runs on ChibiOS. Each *service* (generated base class, xbot framework)
has its own thread, a packet queue, schedules and the callbacks `OnStart`, `OnStop`,
`OnLoop` and one per input register. *Drivers* own hardware, some with a thread or an
ISR. The main thread ends in `DispatchEvents`, which fetches the flags of one global
event source and calls into the services. All service threads, main and most driver
threads have `NORMALPRIO` and ChibiOS is built with time quantum 0: threads of equal
priority switch only where they block (a mutex, a send, an event wait).

| Component | State it keeps | Operations | Interacts with | What is hard | What makes it correct |
|---|---|---|---|---|---|
| `EmergencyService` | `reasons_`, time of the last high level message, required services | `UpdateEmergency`, `CheckInputs`, `CheckTimeouts`, `CheckRequiredServices`, `OnHighLevelEmergencyChanged`, `OnStop`, `SendStatus` | main (event, `CheckInputs`), motor services (reasons), input service, `IsHealthy` of all required services | two updaters, results computed before the lock, block times, 32 bit time | reasons settle to what the inputs, the silence and the services give; nothing is lost or reported late |
| `InputService`, `Input` | inputs, levels, pending emergencies, lift and collision counters, redundancy groups | config load, `Update`, `OnInputChanged`, `InjectPress`, `GetEmergencyReasons` | input drivers, emergency service, main | failing and repeated configuration, short presses, counting of redundant sensors | counters agree with inputs; a `*_MULTIPLE` emergency needs two |
| `DiffDriveService`, `MowerService` | command, `duty_sent_`, ESC state | `tick`, command handlers, `OnEmergencyChangedEvent`, `SetDuty`, ESC callbacks | emergency service, main, motor drivers | an emergency between reading the reasons and sending; stops that send nothing | after an emergency is delivered every ESC was last told 0; every stop condition reaches the motor |
| `DispatchEvents` (main.cpp) | event flags | dispatch of `EMERGENCY_CHANGED`, `INPUTS_CHANGED` | all of the above | merged flags, changes during a dispatch | every change is delivered |
| `DiffDriveService`, status | the wheels' last reports, ticks of the last pair, connected ESCs | ESC callbacks, `ProcessStatusUpdate`, status half of `tick`, start, stop | motor drivers, host, `IsHealthy` | reports left over from before a stop, wraps, ESCs that fall silent | the twist is what the wheels moved; a silent ESC is noticed |
| VESC, GPS reception | double receive buffer | ISR, receive thread | packet parsers | ISR against thread | no buffer is received into while it is parsed; none is lost silently |
| Cover UI, YFR4 reception | circular DMA buffer | DMA, ISR, receive thread | COBS parser | a wrap that has to be inferred | the parser gets every byte once and in order |
| Packet parsers (VESC, UBX, COBS) | fill, length, header found | one call per buffer | drivers | packets cut anywhere, cut short, at the limits of the counters | intact packets are handed on, none behind the buffer, the parser recovers |
| VESC, YFR4 commands, debug access | last duty, raw mode, driver mutex | `SetDuty`, heartbeat, TCP client | motor services, debug client | four threads and one mutex, blocking writes | the commanded duty reaches the ESC, `SetDuty` returns |
| `PowerService`, chargers | charger configured, charger registers, `critical_count_` | `driver_tick_`, `update_charger_`, Sabo power management | emergency service (`IsHealthy`), I2C | every transfer may fail | a configured charger is configured; a critical battery switches the high level off |
| GPS service, saved settings | driver, settings file, configuration | `OnStart`, `Load`, `Save`, boot, reset | file system, host | errors and power losses between steps, resets | the driver runs as configured; the board stops resetting itself |
| YardForce cover UI | protocol, presence, version poll, emergency state | own thread at lower priority, timers | inputs, panel | preemption, lost answers, reloads | inputs follow the panel; a panel that is gone is noticed |
| Sabo rear stop button | pulse counter, last count | pulse ISR, timer, `Tick` | inputs | read and reset of a counter an interrupt increments | a press is noticed in time, pulses are no press |
| BMS, IMU, high level, ADC, GPIO expander, Sabo UI and LVGL, boot discovery, LED, EEPROM | | | | mostly I/O, numbers and layout | not modelled, see `PROJECT.json` |

`PROJECT.json` lists every component with its status, the lines each definition
models, the hazards of the code and the properties that watch them.

## 2. Modules

| Module | Models | Extended by |
|---|---|---|
| `EmergencyStop` | the way from a change of `reasons_` to the ESCs: `UpdateEmergency`, `SendStatus`, `DispatchEvents`, both motor services; implements `StopContract` | `EmergencyStopProofs`, `MCEmergencyStop` |
| `StopContract` | abstract specification of the emergency stop: reasons, the services told of them, duties | instance in `EmergencyStop` |
| `InputService` | `InputService` and `Input`: configuration, counters, virtual inputs, pending emergencies | `EmergencyService`, `InputServiceProofs`, `MCInputService` |
| `EmergencyService` | composition of the emergency service with `InputService`, in discrete time: both threads that call `CheckInputs`, `mtx_`, block times, high level messages, health | `EmergencyServiceProofs`, `MCEmergencyService` |
| `InputPreemption` | `Input::Update` and `OnInputChanged` in single accesses, preempted between any two | `DriverProofs`, `MCInputs` |
| `StopHeartbeat` | the pulse counting of the Sabo rear stop button | `DriverProofs`, `MCInputs` |
| `CoverUi` | version poll, presence, emergency reports and reloads of the YardForce cover UI | `MCInputs` |
| `DriveStatus` | the status half of `DiffDriveService`: pairing of ESC reports, wheel ticks, disconnected messages, health | `MotorLinkProofs`, `MCServices` |
| `EscCommand` | `SetDuty`, heartbeat and raw debug access of the VESC and the YFR4 driver | `MotorLinkProofs`, `MCServices` |
| `UartReceiver` | double-buffered reception of the VESC and the GPS driver: ISR, thread, timeout path | `ReceiverProofs`, `MCReception` |
| `ByteStream` | abstract specification of a reception: bytes are handed over in order, each once | instance in `RingReceiver` |
| `RingReceiver` | circular reception of the cover UI and the YFR4 driver; implements `ByteStream` | `ReceiverProofs`, `MCReception` |
| `PacketStream` | what two parsers share: a peer that sends packets, a line that cuts one short, the loop of `ProcessBytes` | `VescParser`, `UbxParser` |
| `VescParser`, `UbxParser` | the packet parsers of the VESC and the u-blox driver | `DriverProofs`, `MCReception`, through it `FramingProofs` |
| `CobsLink` | the COBS codec and the frame reassembly of the cover UI and the YFR4 driver on a faulty line | `MCReception`, through it `FramingProofs` |
| `PowerService` | charger configuration and monitoring, critical battery, Sabo power management | `MCServices`, through it `PlatformProofs` |
| `GpsSettings` | GPS service start, saved settings, reset and boot | `MCServices`, through it `PlatformProofs` |

`MCInputs`, `MCReception` and `MCServices` each put models that share no
variable into one run. A variable `part`, chosen in the initial state, says which of them moves; the others keep one
initial state. The behaviours of such a run are those of its models, one after the other, and none is lost:
models without a common variable cannot influence each other. The fairness of each model is
stated there too, restricted to the behaviours in which it moves. What does interact is
composed in a module of its own (`EmergencyService` with `InputService`) or modelled as one
(`EmergencyStop`, `EscCommand`).

The definitions marked *Deviation* are altered copies of the definition that follows
them, as a plausible mistake in the code would alter it. No specification uses them;
each is put in place of the original to show that a property notices it (list
`mutants` of `PROJECT.json`).

### EmergencyStop

A step is the code between two points where its thread can block. The variables
`phase`, `saw_emergency` and `to_send` are the program counter and locals of `SetDuty`
under the service's mutex (`holder`), run either by the service (`handler`) or by main;
`updating` is the program counter of `UpdateEmergency` on the emergency service's and
on the main thread; `mtx` is `EmergencyService::mtx_`, visible only while a thread
blocks with it held (in `SendStatus`). `duty[m]` is what ESC `m` was last told.
The reasons other than `SERVICE_NOT_READY` change freely: what raises them is the
subject of `EmergencyService`. `DiffDriveService` (two ESCs, callbacks that take the
mutex) and `MowerService` (one ESC, command dropped when its status is old) run the same
protocol and are told apart by the constant `Blades`. A duty is a natural number:
only 0 and not 0 matter. The age of a command is `new`, `ticked` or `expired`: the
timeouts (1 s, 10 s) are many tick periods (40 ms, 500 ms), so a command is seen by a
tick before it expires while the service runs.

`StopContract` knows only the reasons, the duties and which services have been told of the last change. A change
un-tells everyone, a service is told of an emergency only with its ESCs at rest, and a told service
drives no ESC until the next change. The refinement maps `told` to the services that no pending broadcast, flag or dispatch
still has to reach (`Told`); mutexes, program counters and events do not appear in it.

### InputService

Slots of `all_inputs_` are 0 and 1 for the virtual inputs, `k + 2` for the input with
`idx` `k`. A configuration is a sequence of entries; an entry may be invalid, one
too many, or name one redundancy group too many. A failing load keeps the
entries before the failure and the failing one as far as it was read
(`PartialConfigs`), exactly as the code does, and the drivers go on updating them.
`InjectPress` (cover UI) is two updates, the first dated back. `Update` is
one step with `OnInputChanged` and the update of the virtual inputs, since drivers of
the services' priority are not interrupted before the send at its end. The inputs'
inversion, the JSON text and the events sent to the high level are abstracted away.

### EmergencyService

Time is in ticks; it advances when all threads wait (`Tick`), and `micros` wraps at
`Wrap` like the 32 bit clock. `CheckInputs` computes the reasons, then enters
`UpdateEmergency` and queues for `mtx_` (`mtx_queue`, first in first out like a
ChibiOS mutex), so results of the two threads can overtake each other or not as the
queue allows. The block time of the service's own round ends in `sleep`; main's is dropped, as
in the code. The arguments of the nested `min` calls of `OnLoop` are evaluated in
any order C++ allows. The status schedule wakes the service at least once per
`StatusPeriod`, at any phase. History variables (`held`, `silence`, `calm`,
`latch_owed`) measure true durations; nothing but the properties reads them.
External and assumed: the framework calls `OnLoop` after each message and timeout, and
only while the service runs.

### UartReceiver

One module for both drivers, told apart by the constant `Driver`; the constant
`RECV_BUFFER_SIZE` is 260 (VESC) or 512 (GPS). `pc` is the thread's place in `threadFunc`;
the interrupt (`RxEnd`) is one step between any two of the thread's accesses to the shared
fields, and the block under `chSysLock` is one step (`TakePartial`). Bytes are only counted. The
history variables `unread` and `dropped` say whether a buffer with data that was handed over has
reached the parser, `raced` whether an interrupt ever came between a timeout and the
lock that follows it. A transfer that ends while the lock is held is taken to end just
after it. Stopping a driver and the debug-only case of an inactive UART are left out.

### InputPreemption

`InputService` takes an update as one step, which is right for drivers on service threads.
The cover UI thread has priority `NORMALPRIO - 1`: here its `Update` is a step per access to shared
state, and an update of another input on the input service's thread, or a poll of the pending
emergencies, fits between any two. `num_active_lift_` and the flags are atomic, the refcount of a
group and `active_since` are not. A poll reads the time before it waits for the mutex.

### StopHeartbeat, DriveStatus

`StopHeartbeat` counts time in units; what is due in the same unit happens in any order, and the
pulse interrupt may come between the timer callback's read and reset, as the interrupt
priorities of `boards/XCORE/mcuconf.h` allow. `DriveStatus` complements `EmergencyStop`, which has
the duty half of the same handlers: its steps are the critical sections of `state_mutex_`. The true position
of the wheels is kept beside the tachometer, which wraps; ESCs report whether or not the service runs.

### EscCommand

`svc`, the heartbeat, the debug thread and the receive thread are the four users of a
driver's `mutex_`. `SetDuty` is two critical sections (the test for raw mode and the send), as
in the code. The socket is `open`, `closed` or `reset`; `read` on a reset one answers -1, which
`bytes_received`, a `size_t`, turns into a large number. What the ESC was last told and how many
packets with an old duty followed a new one are history. `SendSettings` of the YFR4 driver takes the same mutex for one more write
(`YFR4escDriver.cpp:145`) and is not modelled: like the heartbeat's it is a bounded critical section, and it carries no duty.

### RingReceiver and ByteStream

The DMA writes numbered bytes, so that `dma_rx_buffer` shows what has been overwritten. The
thread's round is split at each access to `NDTR` and to the events. One module covers both drivers
(`WrapByEvent`): the cover UI learns of a wrap from the event of the interrupt, the YFR4 driver from a
position that is smaller than its own. `ByteStream` knows only how many bytes were received
and taken and which were handed over; the refinement maps its `received` to `arrived`, the bytes of the
earlier passes and those of the current one, and the rest to the variables of the same name.

### PacketStream, VescParser, UbxParser, CobsLink

The parsers' loop passes are actions; a call of `ProcessBytes` gets 1 to `MaxBuffer` bytes, so packets
are cut everywhere. Bytes carry their place in the packet and its last place, which decide whether the collected bytes
are a packet that was sent: a checksum is taken to be right exactly then. The width of a byte and the sizes of
the buffers are constants. The run gives them values that overrun where the code's do: the VESC's working buffer is four
bytes larger than the range of a byte, which is that of its fill; a call may bring as many bytes as `gbuffer_` holds (512 and 512), which is
less than the range of the two length bytes; and the reassembled COBS bytes exceed the decode buffer by a third
(32 and 24 in the cover UI; the YFR4 driver's buffers differ by one byte and are a case of the proof). Where `ProcessBytes` of the u-blox driver leaves
`gbuffer_` (`Leaves`, `Fault`) nothing defined follows and the model stops parsing.
`CobsLink` encodes and decodes real byte sequences,
on a line that loses and changes bytes; what a decoding writes behind its buffer is counted and has no effect
in the model (in the cover UI it goes into `tx_buf_`, which is filled anew before each send).

### CoverUi, PowerService, GpsSettings

`CoverUi` has one step for taking the messages that have arrived and one per timer check, since the thread can be
held up between the two; timers are actions. `PowerService` takes a driver tick as one step that
chooses, for each I2C transfer, whether it fails; the registers of the charger are kept as "written" or
"reset". `GpsSettings` splits `VersionedStruct::Save` at every call of littlefs and lets the flash fail or
the power go between any two; littlefs itself (what is durable when) is external and described in
the module's head.

## 3. Properties and runs

| Run | Module, configuration | Bounds | Shows |
|---|---|---|---|
| `stop_robot` | `MCEmergencyStop`, `EmergencyStop_robot.cfg` | a drive and a mower service with one ESC each, `SERVICE_NOT_READY` as the only reason, no command timeouts and input changes (`RobotBound`) | `StopInv`, the inductive invariant of section 4, and `StoppedWhenDelivered` when main serves two services in turn; `ImplementsContract`, the refinement of `StopContract` |
| `stop_liveness` | `MCEmergencyStop`, `EmergencyStop_liveness.cfg` | one mower service, one reason beside `SERVICE_NOT_READY`, duties 0 and 1 | `EmergencyStopsMotors`, `StoppedServiceStops`, `CommandTimeoutStops` |
| `stop_timeout_comment` | `MCEmergencyStop`, `EmergencyStop_timeout.cfg` | one mower service | `NothingSentInTimeout` is violated (finding 1) |
| `inputs` | `MCInputs`, `Inputs.cfg` | `InputService`: four inputs, two groups, five configurations of which three fail, clock still; `InputPreemption`: two lift inputs, with and without a group, a clock up to 2, three updates; `StopHeartbeat`: interval of 6, minimum 2, gaps 1 and 2; `CoverUi`: one channel, two queued messages, two reloads, two faults | `CountersAgree`, `MultipleNeedsTwo`; `LongPressReported`; `PressNoticed`, `NoFalseStop`; `PanelStateSeen`, `GoneIsNoticed` |
| `emergency` | `MCEmergencyService`, `EmergencyService.cfg` | one latching stop input with a delay longer than the status period, messages that clear everything | `TypeOK`, `ReasonsExact`, `LatchHolds`, `ReportedInTime`, `SilenceEngages` |
| `emergency_wrap` | `MCEmergencyService`, `EmergencyService_wrap.cfg` | a delayed lift sensor, signs of life | `SilenceStaysEngaged` is violated (finding 2) |
| `reception` | `MCReception`, `Reception.cfg` | `UartReceiver` of the VESC driver with buffers of three bytes; `RingReceiver` of the YFR4 driver with a buffer of 4, up to 3 unread bytes, 13 bytes (three passes); the parsers with bytes up to 7, calls of up to 8 bytes, one packet cut short, payloads with and without header bytes, a UBX buffer of 8; COBS blocks of up to 3 bytes, payloads of up to 3, buffers of 8 and 6, two frames, two faults | `NoStuckBuffer`, `OnlyRaceLosesData`, `ReceivedIsTaken`; `ImplementsStream`, `EveryByteTaken`; `BuffersHold` (`InBounds`, `OnlyWrapFaults` and `OnlyJoinedOverrun`), `NoPacketLost`, `PacketsKeepComing`; `CodecRoundTrip`, `CleanFrameDelivered` |
| `uart_race` | `UartReceiver`, `UartReceiver_race.cfg` | the VESC driver, buffers of three bytes | `ParserOwnsBuffer` is violated (finding 3) |
| `vesc_fill` | `VescParser`, `VescParser_fill.cfg` | bytes up to 7, one packet cut short, an ESC that goes on sending | `EveryLengthEnds` is violated (finding 5) |
| `ubx_wrap` | `UbxParser`, `UbxParser_wrap.cfg` | bytes up to 7, calls and a buffer of 8 bytes, one packet cut short | `UbxInBounds` is violated (finding 6) |
| `services` | `MCServices`, `Services.cfg` | `EscCommand`: both drivers, duties 0 and 1, two debug sessions that close or are reset; `DriveStatus`: two positions around the wrap, ESCs that fall silent and return; `PowerService`: three settings, three critical rounds, with and without the Sabo callback, any pattern of failures; `GpsSettings`: two protocols, three UARTs of which one has no driver, two faults, two configurations, with and without saved settings | `AtMostOneStalePacket`, `DutyReachesEsc`, `SetDutyReturns`, `RawModeEnds`; `TwistExact`, `HealthyHasStatus`, `SilenceNoticed`; `ConfiguredMeansSet`, `CriticalBatterySwitchesOff`; `RunsAsConfigured`, `SaveAllOrNothing`, `GpsSettles` |
| `preempt_group` | `InputPreemption`, `InputPreemption_group.cfg` | two lift inputs, four updates | `GroupCountsAsOne` is violated (finding 4) |

Why the bounds are enough: the protocol of `EmergencyStop` treats services alike and
ESCs of a service in sequence, so two services exhibit every order of deliveries; one
emergency reason more than `SERVICE_NOT_READY` lets a change be replaced by another. A service with several
ESCs, and both bounds at once, are covered by the proofs of section 4.
Four inputs fit two members of a group, a lift beside it and one in a second group.
In `EmergencyService` the periods keep their order (retry < timeout = status period
< input delay < wrap). `TimeView` identifies states that differ in the clock's origin only.
A buffer of three bytes can be empty, partly full and full in `UartReceiver`, and a ring of four bytes over three passes
has every position of the thread against the DMA; the invariants of both, and the refinement, are proved
for every size and for the other driver of each module (GPS, cover UI), which the run leaves out.
The parsers see each byte of a packet as the last one of a buffer, and calls that hold the end of one packet and the start of
the next; lengths the peer does not send are read after a packet was cut short. Three updates are enough for a lost update and its repair; two faults and two reloads
let a fault hit the recovery from another. In `StopHeartbeat` an interval holds one pulse more than the minimum,
the least that can bear a lost pulse.

Fairness of `EmergencyStop` (`FairSpec`): a thread inside a call carries on and gets the mutex it waits for
(ChibiOS wakes waiters in order; all threads of the model block only for each other or
for a bounded send), the tick schedule of a running service fires, and the emergency
service checks the required services again and again, because it wakes at least once per status
period. Strong fairness is used since a mutex is free only from time to time.
Nothing is assumed of inputs, commands, high level messages, starts and stops.
The other models have their fairness in the MC modules:

* `ReceptionFairness`: the receiving threads run and their timeouts fire, and a full buffer raises its interrupt;
  bytes may stop coming at any time. The peer of a parser goes on sending and the thread goes on parsing
  (`VescFairSpec` says the same for `vesc_fill`).
* `StatusFairness`: time passes, ESCs that work report, and ticks of a running service (40 ms) hit the seconds in which
  a pair is old. `EscFairness`: the service repeats its duty, threads get the driver's mutex, and a write to a client
  ends unless the client is there and does not read.
* `PowerFairness`: of endlessly many configurations and rounds some succeed (strong fairness: an I2C bus that never
  works is no subject of these properties). `GpsFairness`: the firmware runs on and the host configures again after a reset.
* `UiFairness`: the thread and its timers run, and a connected panel's answers and reports get through again and
  again. `PreemptionFairness`: the cover UI thread is not preempted for ever and main polls after a change.

`ReportedInTime` states what the code achieves, which is weaker than the configured
delay: main drops the block time of `CheckInputs` (main.cpp, `DispatchEvents`), so an
input with a delay is reported after the delay or one status period (1 s) after its
activation, whichever is later.

### Findings

1. `tick()` of both motor services says of `duty_sent_` that it is known to be false in a
   command timeout. It can be true, after a restart of the service or an emergency
   handled by main between two ticks. The zero is then sent one tick later;
   `CommandTimeoutStops` holds.
2. `CheckTimeouts` subtracts 32 bit microseconds. After 71.6 minutes of silence the
   difference starts at 0 again and `TIMEOUT_HIGH_LEVEL` is cleared for one second.
3. The comment of `processing_done_` says that the thread sets it when it is safe to process more
   data. An interrupt between a timeout and `chSysLock` leaves its event pending although
   the buffer is parsed in that round. In the next round, which serves that event with the flag on,
   another full buffer may arrive between the check of the length and the last line,
   which switches the flag on although the buffer is still to be parsed. From
   then on the DMA can receive into a buffer being parsed; the GPS driver may
   also reset the length of that buffer and drop it. `OnlyRaceLosesData` shows that this is the
   only way. Both windows are a few instructions wide and a whole buffer has to arrive
   between them, so the thread must have been held up for that long.
4. The refcount of a redundancy group is a plain byte. An update of another member that preempts the cover
   UI thread between its load and its store makes the lift count wrong for good: a group counts as two
   lifts.
5. The VESC parser's buffer is sized for payloads of up to 255 bytes, and its comment says that a length of one byte cannot exceed it.
   The fill is a `uint8_t`: with 253 bytes and more it has wrapped around when the packet is complete, and the parser
   stays in that packet for ever. The ESC sends no such packet; after a packet was cut short the length may
   be read from the contents of another one.
6. The u-blox parser skips packets that do not fit `gbuffer_`, says the comment of its length check. A payload length of
   65528 or more makes the `uint16_t` total wrap around and pass the check. The copy then takes the whole rest of the
   call, up to 512 bytes behind the 6 of the header in a buffer of 512; or the checksum is computed over nearly 2^32 bytes.

`PROJECT.json` quotes the line each finding is about.

### Limits of the properties

Some properties are stated with a condition because the code does not do more. The condition is named in the
property or is a bound of the run, and this is what lies outside it:

* `EveryByteTaken`, `ImplementsStream`: fewer unread bytes than the buffer has (`Slack`). When exactly a whole buffer has arrived,
  the YFR4 driver sees no new byte and skips the buffer (`YFR4escDriver.cpp:243`).
* `PacketsKeepComing`: the parsers stop for good after a length with which the VESC's fill or the u-blox driver's total wraps
  (findings 5 and 6); the property says that nothing else stops them. Of payloads with header bytes, after a packet was cut
  short, nothing is claimed: a parser that lost its place may find wrong headers again and again.
* `BuffersHold`: the u-blox driver leaves `gbuffer_` after a wrapped total (finding 6). The cover UI decodes up to 32 reassembled bytes
  into 24 (`yf_cover_ui.hpp:172`, `yf_cover_ui.cpp:642`): two frames of its longest message whose delimiter was lost are enough
  (13 bytes each, 25 decoded). The property says that no other length, and no frame that was not joined, does such a thing. `DecodeFits`, which would
  exclude it, holds for the YFR4 driver's sizes and is proved for them in section 4.
* `RawModeEnds`: connections that are closed. After a reset `read` answers -1, which is kept unsigned, and the driver stays
  in raw mode (`debug_tcp_interface.cpp:73`). `SetDutyReturns`: no client stays connected without reading
  (`debuggable_driver.cpp:16`). `DutyReachesEsc`: not in raw mode, in which the heartbeat goes on sending the old duty.
* `SilenceNoticed`: one silent ESC is reported. When both fall silent one after the other the second one may
  never be (`diff_drive_service.cpp:91`).
* `NoFalseStop`: one pulse per interval to spare. At exactly 50 Hz, which `heartbeat_min_` calls the minimum, a lost or
  shifted pulse looks like a press (`sabo_input_driver.cpp:149`).
* `MultipleNeedsTwo`: updates that are not preempted. `num_active_lift_ >= 2` is computed before the virtual input is
  updated (`input_service.cpp:258`).
* `ConfiguredMeansSet` says that a charge current is set, not which: on the Sabo robot the power management writes it again
  with the limit of the board instead of the robot's maximum (`sabo_robot.cpp:182`). It does not cover the adapter limit, which a
  failed write or a reset of the charger loses (`sabo_robot.cpp:171`), nor an expiry of the
  charger's watchdog, which nothing reports (`power_service.cpp:222`).
* `SaveAllOrNothing`: errors of `mkdirp`, `open` and `sync` leave the old settings in place while `OnStart` goes on to the reset. The comment of `Save`
  promises "true on success, false on write error" (`versioned_struct.hpp:125`), but the negative error codes returned at lines 137 and 144 are `true` as a
  `bool`, and the result of `sync` is not read. The board then resets itself again until the flash works.
* `TwistExact`: an ESC that falls silent and returns keeps its tachometer. One that was power-cycled starts from zero, which the service
  cannot tell from a movement.
* `GoneIsNoticed` says nothing of panels that are there: when the thread is late, a reply that arrived in time
  is not seen before the timeout (`yf_cover_ui.cpp:273`).

## 4. Proofs

`EmergencyStopProofs` (assumption `ConstantsAssumption`: each ESC belongs to a service, ranks are
distinct, 0 is a duty) proves for any set of services, ESCs, duties and reasons:

* `TypeCorrect`: `Spec => []TypeOK`.
* `StopInvariant`: `Spec => []StopInv`. `StoppedWhenDelivered` alone is not inductive: a `SetDuty`
  under way may still send what it chose before the emergency, and main may be about to finish a
  service whose ESCs do not all have their zero. `StopInv` adds who holds which
  mutex (`LockInv`), that main sends zeros (`MainSendsZero`), and that no `SetDuty` that read "no
  emergency" is sending once the emergency is delivered (`NoStaleSetDuty`): main waits for the
  mutex such a `SetDuty` holds.
* `EmergencyStops`: `Spec => []StoppedWhenDelivered`.
* `StopRefinesContract`: `Spec => ImplementsContract`. From `StopInv`, each step is a step of `StopContract` or a stutter: a change of
  `reasons_` un-tells every service because its broadcast is still to come (`UpdateRefines`, `NobodyTold`), a service is told when main leaves it
  with its ESCs at rest (`UnlockRefines`) or finds the emergency over (`EventRefines`), and a `SetDuty` of a told service sends zero
  while there is an emergency (`SendRefines`).

`InputServiceProofs` (assumption `InputConstantsAssumption`: any limits, delays and configurations) proves
`InputInvariant`, and from it `CountersCorrect` and `MultipleCorrect`. The argument is counting:
an update adds or removes one element of the set of active lifts, of one group, or of the active
collisions; the lemmas `CountOne` and `UpdateKeepsCounters` relate the cardinalities, and a
group changes the lift count only when its set becomes empty or stops being so.

`ReceiverProofs` (assumption `ReceiverAssumption`: buffers of at least two bytes) proves
`ReceptionInvariant`, and from it `NoLostWakeup` and `OnlyRaceLoses`, for both drivers. The
properties are not inductive alone: `HandoverInv` adds that a buffer or a switched-off flag during
the timeout path comes with a pending event, that a length left at the end of a round does
too, and that without a race so far the flag is off from the hand-over to the end of the round.

It also proves (assumption `RingAssumption`: any buffer size), for either driver and with fewer
unread bytes than the buffer holds:

* `RingInvariant`: `RingInv` always holds. The thread is in the DMA's pass or one behind it; in the second case the
  wrap is still announced, or still visible in the position; a position read is one of the current or the
  next pass (`PositionRead`), and the buffer holds every byte not yet taken.
* `RingRefinesStream`: the reception implements `ByteStream`; each step of the DMA is a received byte, each
  hand-over takes the next bytes in order, every other step is a stutter.

`EmergencyServiceProofs` (assumptions `InputConstantsAssumption` and `EmergencyConstantsAssumption`: positive periods, a
timeout shorter than the clock's range, messages that are pairs of sets of reasons) proves `EmergencyInvariant`
(`EmergencyInv` always holds), and from it `EmergencyTypeCorrect`, `LatchIsHeld`, `SilenceIsNoticed`, `InputsAreReported`
and `ReasonsAreExact`, for any inputs, configurations, delays and periods. None of the properties is inductive: they speak of
states in which both threads wait, and `reasons_` lags behind the checks.

* `Promised` is what `reasons_` will be once the calls of `UpdateEmergency` that hold or wait for `mtx_` are served in
  their order. A call acts on it when it enters (`EnterPromises`), serving one leaves it alone (`ServeKeepsPromise`), and when
  every thread waits it equals `reasons_`. `QueueInv` says that a thread is queued exactly while it is in a call.
* Every delay is a sum of what was counted up (`held`, `silence`, `calm`) and the rest of the sleep (`Rest`: `sleep`, or the block time
  agreed on so far): a tick moves one unit from the second to the first. `ReportInv`, `ExactInv`, `TimeoutInv` and `ReadyInv` bound these
  sums from the moment the check has been made in a round (`Checked`); before, nothing is claimed. The block time's lemma
  (`BlockTimeBounds`) says that `CheckInputs` never asks for a longer sleep than the first delay that runs out.
* `ClockInv` says that a difference of 32 bit times is the true duration until that reaches the clock's range. `PendingInv` and
  `LatchInv`: a press too short to be seen is pending, main has the event, and the latch is promised or among the pending.

`MotorLinkProofs` (assumptions `EscConstants`, `DriveAssumption`: an even range of the tachometer and positions less than
half of it apart) proves for any duties and debug sessions `EscInvariant` and `OneStalePacket`, and for any positions and
range `StatusInvariant`, `HealthIsBacked` and `TwistCorrect` (an action property).

* `AtMostOneStalePacket` needs to know which duty the heartbeat has in its hands: `HeartbeatInv` says that one which differs
  from the accepted duty was read before the change, so no stale packet has been sent yet; `MutexInv` says who is inside.
* `HealthyHasStatus` needs that a side that counts as connected waits with its report unless a pair was
  processed (`PairInv`); `TwistExact` needs that valid ticks are the tachometer's reading of the base (`TicksInv`) and the lemma that
  a signed difference modulo the range is the distance.

`PlatformProofs` (assumptions `PowerAssumption`: currents are positive; `GpsConstants`: the default port has a driver, an absent
or empty file is no settings record) proves `ChargerIsSet`, `GpsInvariant`, `DriverAsConfigured`, `SaveIsAllOrNothing` and
`PlatformTypeCorrect`. `ConfiguredMeansSet` is inductive with the types; the work is in the lemmas about the
sets of outcomes of a configuration in which any transfer may fail. The GPS properties need `StepInv`: what the place in
`OnStart` and `Save` says of the service's state, that the buffer about to be synced holds the new settings, and that an error `Save` does not see ends it.
`SaveAllOrNothing` has no hypothesis on the errors: with the ones `Save` takes for success it states that the old settings are still there.

`DriverProofs` (assumptions `HeartbeatAssumption`, `PreemptionConstants`, `StreamAssumption`, `VescAssumption`, `UbxAssumption`: a counter wider than an interval has
pulses, contents that are bytes, VESC lengths that fit a byte, UBX packets that fit `gbuffer_`) proves:

* `HeartbeatInvariant` and `PressIsNoticed`: a press passes four stages (before the timer's first reset, before the second, before the
  next `Tick`, after it), each with a bound on the time passed and the time left (`PressInv`).
* `NoFalseStopAbove`: with pulses at most `G` apart and `G * (HEARTBEAT_MIN + 1) <= HEARTBEAT_CHECK_INTERVAL` no stop is reported of a
  button that is not pressed (`SteadyInv`). The hypothesis is the spare pulse of section 3: without it the property is false.
* `LongPressIsKept` and `UngroupedCountExact` of `InputPreemption`, both inductive with the types: an unreported long press is pending and a poll
  is under way, announced, or announced by the end of the update; without a group the atomic count is the number of active inputs.
  The first is the safety part of `LongPressReported`, the second shows that finding 4 needs a group.
* `VescKeepsItsPlace` and `UbxKeepsItsPlace`: `NoPacketLost` for all lengths, contents and cuts. An intact stream is a `Chain`: from any byte on
  indices count up to the packet's end and start over. It is stated of all pairs of positions, the byte the peer sends next
  included, because then appending a byte and taking bytes from the front preserve it without an induction (`StreamSend`,
  `StreamAdvance`). The parser's part (`VescSound`, `UbxSound`) is that the next byte is the one its fill stands for, in the packet whose
  length it has read. For VESC the theorem has the hypothesis that a packet is shorter than the range of the
  8 bit fill (payloads of up to 250 bytes, see section 3).
* `VescStaysInBounds`: `VescSpec => []InBounds`, for all lengths a byte can hold and also with packets cut short: the fill stays below the
  end of the packet whose length was read, and once wrapped it is less than 5 (`VescBoundsInv`).

`FramingProofs` (the assumptions of `DriverProofs` and `CobsConstants`: at least two byte values, payloads of such bytes, a receive buffer for the worst
case of every frame, which is `RX_MAX_PKT_CODED` of `YFR4escDriver.h`) proves:

* `CodecCorrect`: `CodecRoundTrip` for every payload, byte range and block size. The codec is two recursive functions over the length of
  the input read so far (`Encoder`, `Decoder`). An induction over that length is done with the set of the lengths reached (`UpTo`), and the recursion equations
  (`EncoderEquation`, `DecoderEquation`) are derived from the definition. The invariant of the encoder
  (`EncoderInv`) is that the finished blocks decode to what was read before the open block, the zero included that a decoder owes after
  a block that was not full (`Ended`), and that there is one byte more than was read for each full block; `DecodeBlock` says what a decoder makes of one more block.
* `CleanFrames`: `CleanFrameDelivered`. `LinkInv` says of a clean frame that what was received and what is still on the wire make up the frame.
* `SingleFramesFit`: `OnlyJoinedOverrun`, for all sizes of the two buffers. `OneFrame` says that as long as every delimiter has arrived, the bytes received and those
  still on the wire are no more than one frame, and that a decoding makes them fewer (`DecodeShrinks`). `JoinedFramesFit` adds that `DecodeFits` holds even for joined frames if the
  receive buffer is at most one byte longer, as the YFR4 driver's is.
* `UbxLeavesByWrapOnly`: `OnlyWrapFaults`, for all sizes of a call and of `gbuffer_`. More than the header is only collected of a packet that fits and is not
  complete (`UbxBoundsInv`), so the parser can leave the buffer only with the header alone in it and a total below 8 (`UbxFaults`).
* `BuffersAreKept`: `BuffersHold` of the specification that the run checks, with no hypothesis beside the assumptions on the constants.

The properties that these theorems state are also checked by TLC in the runs (section 3); the inductive invariants exist only in the proof
modules and are established by the proofs.

Model-checked only:

* the liveness properties (fairness is outside TLAPS' proof rules here);
* that `CoverUi` follows and loses its panel, which is liveness throughout.

## 5. Plan

1. `EmergencyStop`, `InputService`, `EmergencyService` with their runs; proofs of the first two. *Done.*
2. `UartReceiver` with its proofs. *Done.*
3. The drivers' protocols: `RingReceiver` (with `ByteStream` and its proofs), `VescParser`, `UbxParser`, `CobsLink`, `CoverUi`,
   `EscCommand`, `StopHeartbeat`. *Done.*
4. `InputPreemption`, `PowerService`, `GpsSettings`, `DriveStatus`. *Done.*
5. Proofs of `EmergencyService`, `DriveStatus`, `EscCommand`, `PowerService`, `GpsSettings`, `StopHeartbeat`, `VescParser`, `UbxParser`. *Done.*
6. `StopContract` and the proof that `EmergencyStop` implements it; proofs of the COBS codec, of all receive buffers and of the
   safety part of `InputPreemption`. *Done.* Next: the type invariant of `CoverUi`.
7. Later modules: the BMS driver's search for a battery; the TCA95xx register cache.

## 6. Not modelled

The contents of status messages, positions and measurements (floating point); the vendored NMEA and JSON parsers;
LEDs, rain and the hall multiplexer of the cover UI; read errors of a settings file (`VersionedStruct::Load`);
the BQ2579 charger; the BMS driver, whose only state beside its readings is a number of attempts; the IMU, ADC and
GPIO expander drivers; displays and menus; the UDP debug interface; boot discovery. The xbot framework is a
submodule that is not in the tree; the network appears only as a send that may block; ChibiOS, lwIP, LVGL, ETL
and the other vendored code make up nearly all lines of the repository and are modelled only from
how the firmware uses them.
