------------------------------- MODULE CoverUi -------------------------------
(***************************************************************************)
(* The YardForce cover UI panel and its driver: the version poll that      *)
(* tells whether the panel is there, the emergency reports, and the        *)
(* configuration that selects the protocol and disables the UART.          *)
(*                                                                         *)
(* The driver's thread takes the messages that have arrived, then looks at *)
(* its timers; it has a lower priority than the services and may be        *)
(* preempted between the two.  The timers are actions: 3 s for the first   *)
(* answer, 5 s between polls, 250 ms for the answer to a poll.  Button,    *)
(* rain and subscribe messages change nothing that is modelled here.       *)
(***************************************************************************)
EXTENDS Naturals, Sequences

CONSTANTS
  Channels,    \* emergency channels of the panel that inputs are configured for
  MaxQueue,    \* messages the receive buffer holds
  MaxReloads,  \* bound on input configurations
  MaxFaults    \* bound on lost answers and on (un)pluggings of the panel

ASSUME CoverUiConstants == {MaxQueue, MaxReloads, MaxFaults} \subseteq Nat

VARIABLES
  protocol,    \* protocol_: "none", "om", "oem"
  armed,       \* DMA reception is running
  uiStep,      \* thread: "wait" before, "timers" after taking the messages
  available, present, determined,  \* ui_available_, ui_present_, presence_determined_
  pending,     \* version_pending_
  state,       \* emergency_state_
  panel_active,\* channels whose inputs are active
  queue,       \* messages received and not yet taken
  due,         \* timers that have run out: "probe", "poll", "answer"
  connected,   \* the panel is plugged in
  pressed,     \* the panel's emergency state
  asked,       \* the panel has a version request to answer
  reloads, faults

driver == <<available, present, determined, pending, state, panel_active>>
panel == <<connected, pressed, asked>>
uiVars == <<protocol, armed, uiStep, driver, queue, due, panel, reloads, faults>>

\* Start: reception is armed, the first poll is due at once.
UiInit ==
  /\ protocol = "none" /\ armed = TRUE /\ uiStep = "wait"
  /\ available = FALSE /\ present = FALSE /\ determined = FALSE /\ pending = FALSE
  /\ state = {} /\ panel_active = {} /\ queue = <<>> /\ due = {"poll"}
  /\ connected \in BOOLEAN /\ pressed = {} /\ asked = FALSE
  /\ reloads = 0 /\ faults = 0

-----------------------------------------------------------------------------
\* The input service reads a configuration: the inputs are new and inactive,
\* the protocol is what it says, if it says anything.  OnStart then stops the
\* reception unless the protocol is OM, or refuses a hall_mux that the board
\* does not have before it comes to that.
ReloadTo(p, refused) ==
  /\ reloads < MaxReloads /\ reloads' = reloads + 1
  /\ protocol' = p /\ panel_active' = {}
  /\ armed' = (armed /\ (refused \/ p = "om"))
  /\ UNCHANGED <<uiStep, available, present, determined, pending, state, queue, due,
                 panel, faults>>

ReloadInputs == \E p \in {protocol, "om", "oem"}, refused \in BOOLEAN : ReloadTo(p, refused)

-----------------------------------------------------------------------------
\* The effect of one message: HandleVersion, HandleEmergency.
VersionReceived == \E i \in DOMAIN queue : queue[i].type = "version"

\* Deviation: an emergency message adds to the ones before.
EmergencyStatesAddedUp == {state \cup queue[i].state : i \in {j \in DOMAIN queue :
  queue[j].type = "emergency" /\ \A k \in (j + 1)..Len(queue) : queue[k].type # "emergency"}}

EmergencyStates == {queue[i].state : i \in {j \in DOMAIN queue :
  queue[j].type = "emergency" /\ \A k \in (j + 1)..Len(queue) : queue[k].type # "emergency"}}

\* The messages in the order of their arrival: the last emergency message
\* remains, in emergency_state_ and in the inputs.
HandleMessages ==
  /\ \/ EmergencyStates = {} /\ UNCHANGED <<state, panel_active>>
     \/ state' \in EmergencyStates /\ panel_active' = state'
  /\ pending' = (pending /\ ~VersionReceived)
  /\ available' = (available \/ VersionReceived)
  /\ present' = (present \/ VersionReceived)
  /\ determined' = (determined \/ VersionReceived)

\* First half of an iteration of ThreadFunc: the bytes received so far.
TakeMessages ==
  /\ uiStep = "wait" /\ protocol = "om"
  /\ HandleMessages
  /\ queue' = <<>> /\ uiStep' = "timers"
  /\ UNCHANGED <<protocol, armed, due, panel, reloads, faults>>

\* Startup presence verdict.
ProbeVerdict ==
  determined' = (determined \/ ("probe" \in due /\ ~present))

\* The last poll has no answer after VERSION_TIMEOUT_MS.
Expired == pending /\ "answer" \in due

\* Deviation: a panel that does not answer stays available.
VersionTimeoutIgnored == UNCHANGED <<available, state, panel_active>>

\* Version timeout: the panel is unavailable and its emergencies are over.
VersionTimeout ==
  /\ available' = (available /\ ~Expired)
  /\ IF Expired /\ available THEN state' = {} /\ panel_active' = {}
                             ELSE UNCHANGED <<state, panel_active>>

\* SendVersionRequest, every 5 s.
VersionPoll ==
  IF "poll" \in due
  THEN pending' = TRUE /\ due' = due \ {"poll", "answer"} /\ asked' = connected
  ELSE pending' = (pending /\ ~Expired) /\ due' = due \ {"answer"} /\ UNCHANGED asked

\* Second half of the iteration.
CheckTimers ==
  /\ uiStep = "timers" /\ uiStep' = "wait"
  /\ ProbeVerdict /\ VersionTimeout /\ VersionPoll
  /\ UNCHANGED <<protocol, armed, present, queue, connected, pressed, reloads, faults>>

\* Time passes: the 250 ms of an answer are over long before the next poll.
TimerRunsOut ==
  /\ \/ due' = due \cup {"probe"}
     \/ pending /\ due' = due \cup {"answer"}
     \/ (pending => "answer" \in due) /\ due' = due \cup {"poll"}
  /\ UNCHANGED <<protocol, armed, uiStep, driver, queue, panel, reloads, faults>>

-----------------------------------------------------------------------------
\* The panel (external) sends a message, which arrives if the UART listens.
Arrives(m) ==
  /\ connected /\ Len(queue) < MaxQueue
  /\ queue' = IF armed THEN Append(queue, m) ELSE queue
  /\ UNCHANGED <<protocol, armed, uiStep, driver, due, connected, pressed, reloads, faults>>

PanelAnswers ==
  /\ asked /\ asked' = FALSE
  /\ Arrives([type |-> "version"])

\* It reports its emergency state, and repeats it.
PanelReports ==
  /\ Arrives([type |-> "emergency", state |-> pressed])
  /\ UNCHANGED asked

PanelChanges ==
  /\ connected /\ pressed' \in SUBSET Channels \ {pressed}
  /\ UNCHANGED <<protocol, armed, uiStep, driver, queue, due, connected, asked, reloads, faults>>

\* An answer gets lost, or the panel is plugged in or unplugged.
PanelFault ==
  /\ faults < MaxFaults /\ faults' = faults + 1
  /\ asked' = FALSE /\ connected' \in BOOLEAN
  /\ UNCHANGED <<protocol, armed, uiStep, driver, queue, due, pressed, reloads>>

UiNext ==
  \/ ReloadInputs \/ TakeMessages \/ CheckTimers \/ TimerRunsOut
  \/ PanelAnswers \/ PanelReports \/ PanelChanges \/ PanelFault

UiSpec == UiInit /\ [][UiNext]_uiVars

-----------------------------------------------------------------------------
\* An emergency that lasts at a panel that listens and is listened to shows in
\* the inputs again and again, and so does its end: neither a configuration,
\* which makes the inputs inactive, nor a timeout, which clears the state,
\* hides it for good.
PanelStateSeen ==
  \A s \in SUBSET Channels :
    <>[](connected /\ pressed = s /\ armed /\ protocol = "om") => []<>(panel_active = s)

\* A panel that is gone does not stay available.
GoneIsNoticed == <>[](~connected /\ protocol = "om") => <>[]~available
=============================================================================
