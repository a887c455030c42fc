---------------------------- MODULE EmergencyStop ----------------------------
(***************************************************************************)
(* How an emergency reaches the motors: EmergencyService::UpdateEmergency, *)
(* the event dispatcher of the main thread, and the motor services         *)
(* (DiffDriveService with two ESCs, MowerService with one), which share    *)
(* the emergency reasons, one event flag and one mutex per motor service.  *)
(*                                                                         *)
(* A step is a stretch of code between two points at which its thread can  *)
(* block: a mutex, or a driver or network send.  Motor services of both    *)
(* kinds run the same protocol; the constants say which motors a service   *)
(* drives, in which order, and which services are built like MowerService. *)
(***************************************************************************)
EXTENDS Naturals

CONSTANTS
    Services,      \* motor services the robot needs (Robot::NeedsService)
    Blades,        \* the ones built like MowerService; the rest like DiffDriveService
    Motors,        \* the ESCs
    service_of,    \* the service that drives an ESC
    Rank,          \* order of ESCs in SetDuty, of services in DispatchEvents
    Duties,        \* duties that can be commanded
    MotionReasons  \* emergency reasons other than SERVICE_NOT_READY

NONE == "none"
SERVICE_NOT_READY == "SERVICE_NOT_READY"
Reasons == MotionReasons \cup {SERVICE_NOT_READY}

ASSUME ConstantsAssumption ==
    /\ Blades \subseteq Services
    /\ service_of \in [Motors -> Services]
    /\ Rank \in [Motors \cup Services -> Nat]
    /\ \A m, n \in Motors : Rank[m] = Rank[n] => m = n
    /\ \A s, t \in Services : Rank[s] = Rank[t] => s = t
    /\ Duties \subseteq Nat
    /\ 0 \in Duties
    /\ SERVICE_NOT_READY \notin MotionReasons

\* The two threads that call UpdateEmergency: the emergency service's own
\* thread, and the main thread through CheckInputs.
Updaters == {"emergency", "main"}

MotorsOf(s) == {m \in Motors : service_of[m] = s}

\* x is the element of S that the code visits first.
IsFirst(x, S) == x \in S /\ \A y \in S : Rank[x] <= Rank[y]

VARIABLES
    reasons,           \* EmergencyService::reasons_
    mtx,               \* thread holding EmergencyService::mtx_ across a send, or NONE
    updating,          \* progress of each updater through UpdateEmergency
    emergency_changed, \* EMERGENCY_CHANGED raised and not yet fetched by main
    inputs_changed,    \* INPUTS_CHANGED raised and not yet fetched by main
    main,              \* where the main thread is in DispatchEvents
    todo,              \* services main still has to notify in this dispatch
    check_inputs,      \* main still has to call CheckInputs in this dispatch
    running,           \* IsRunning() of each service
    connected,         \* ESCs that reported since their service last stopped
    holder,            \* thread holding the service's mutex: "main", "service" or NONE
    handler,           \* handler the service's own thread is executing
    phase,             \* progress of SetDuty under the service's mutex
    saw_emergency,     \* what SetDuty read from GetEmergencyReasons (a local)
    to_send,           \* ESCs that SetDuty has still to send to
    command,           \* speed_l_, speed_r_, mower_duty_
    command_age,       \* age of the last command: "new", "ticked" (a tick has
                       \* completed since), "expired" (older than the timeout)
    duty_sent,         \* duty_sent_
    duty               \* the duty each ESC was last told

emergencyVars == <<reasons, mtx, updating>>
mainVars == <<main, todo, check_inputs>>
lifeVars == <<running, connected, command_age>>
setDutyVars == <<phase, saw_emergency, to_send, duty_sent, duty>>
vars == <<emergencyVars, emergency_changed, inputs_changed, mainVars, lifeVars,
          setDutyVars, holder, handler, command>>

TypeOK ==
    /\ reasons \subseteq Reasons
    /\ mtx \in Updaters \cup {NONE}
    /\ updating \in [Updaters -> {"idle", "broadcast", "status", "sending"}]
    /\ emergency_changed \in BOOLEAN
    /\ inputs_changed \in BOOLEAN
    /\ main \in {"wait", "dispatch", "lock", "held"}
    /\ todo \subseteq Services
    /\ check_inputs \in BOOLEAN
    /\ running \in [Services -> BOOLEAN]
    /\ connected \subseteq Motors
    /\ holder \in [Services -> {"main", "service", NONE}]
    /\ handler \in [Services -> {"idle", "tick", "command"}]
    /\ phase \in [Services -> {"idle", "read", "send", "done"}]
    /\ saw_emergency \in [Services -> BOOLEAN]
    /\ to_send \in [Services -> SUBSET Motors]
    /\ command \in [Motors -> Duties]
    /\ command_age \in [Services -> {"new", "ticked", "expired"}]
    /\ duty_sent \in [Services -> BOOLEAN]
    /\ duty \in [Motors -> Duties]

\* StartServices has registered the required services; no service runs yet.
Init ==
    /\ reasons = Reasons
    /\ mtx = NONE
    /\ updating = [u \in Updaters |-> "idle"]
    /\ emergency_changed = FALSE
    /\ inputs_changed = FALSE
    /\ main = "wait"
    /\ todo = {}
    /\ check_inputs = FALSE
    /\ running = [s \in Services |-> FALSE]
    /\ connected = {}
    /\ holder = [s \in Services |-> NONE]
    /\ handler = [s \in Services |-> "idle"]
    /\ phase = [s \in Services |-> "idle"]
    /\ saw_emergency = [s \in Services |-> FALSE]
    /\ to_send = [s \in Services |-> {}]
    /\ command = [m \in Motors |-> 0]
    /\ command_age = [s \in Services |-> "ticked"]
    /\ duty_sent = [s \in Services |-> FALSE]
    /\ duty = [m \in Motors |-> 0]

-----------------------------------------------------------------------------
(* EmergencyService, as the motor services and the dispatcher see it.      *)

\* Changes the reasons under mtx_; only a real change is announced.
UpdateEmergency(u, add, clear) ==
    LET new == (reasons \ clear) \cup add IN
    /\ updating[u] = "idle"
    /\ mtx = NONE
    /\ reasons' = new
    /\ updating' = IF new = reasons THEN updating
                   ELSE [updating EXCEPT ![u] = "broadcast"]
    /\ UNCHANGED mtx

\* CheckInputs, CheckTimeouts, OnHighLevelEmergencyChanged and OnStop of the
\* emergency service's thread: any change of the reasons other than
\* SERVICE_NOT_READY.
EmergencyUpdate(add) ==
    /\ UpdateEmergency("emergency", add, MotionReasons)
    /\ UNCHANGED <<emergency_changed, inputs_changed, mainVars, lifeVars,
                   setDutyVars, holder, handler, command>>

\* Deviation: a stopped service with live ESCs counts as healthy.
HealthyIfConnected(s) == MotorsOf(s) \subseteq connected

IsHealthy(s) == running[s] /\ MotorsOf(s) \subseteq connected

\* The required services outside this module (input, IMU, power) may report
\* anything; the motor services report what they are.
CheckRequiredServices(others_healthy) ==
    /\ LET all_ready == others_healthy /\ \A s \in Services : IsHealthy(s) IN
       UpdateEmergency("emergency", IF all_ready THEN {} ELSE {SERVICE_NOT_READY},
                       {SERVICE_NOT_READY})
    /\ UNCHANGED <<emergency_changed, inputs_changed, mainVars, lifeVars,
                   setDutyVars, holder, handler, command>>

\* Deviation: the change is sent as status, but no event is raised.
BroadcastForgotten(u) ==
    /\ updating[u] = "broadcast"
    /\ updating' = [updating EXCEPT ![u] = "status"]
    /\ UNCHANGED <<reasons, mtx, emergency_changed, inputs_changed, mainVars, lifeVars,
                   setDutyVars, holder, handler, command>>

\* chEvtBroadcastFlags(EMERGENCY_CHANGED), after mtx_ has been released.
BroadcastChange(u) ==
    /\ updating[u] = "broadcast"
    /\ updating' = [updating EXCEPT ![u] = "status"]
    /\ emergency_changed' = TRUE
    /\ UNCHANGED <<reasons, mtx, inputs_changed, mainVars, lifeVars, setDutyVars,
                   holder, handler, command>>

\* The status schedule of the emergency service calls SendStatus by itself.
StatusSchedule ==
    /\ updating["emergency"] = "idle"
    /\ updating' = [updating EXCEPT !["emergency"] = "status"]
    /\ UNCHANGED <<reasons, mtx, emergency_changed, inputs_changed, mainVars,
                   lifeVars, setDutyVars, holder, handler, command>>

\* SendStatus holds mtx_ while the packet is sent, which may block.
SendStatusLock(u) ==
    /\ updating[u] = "status"
    /\ mtx = NONE
    /\ mtx' = u
    /\ updating' = [updating EXCEPT ![u] = "sending"]
    /\ UNCHANGED <<reasons, emergency_changed, inputs_changed, mainVars, lifeVars,
                   setDutyVars, holder, handler, command>>

SendStatusUnlock(u) ==
    /\ updating[u] = "sending"
    /\ mtx' = NONE
    /\ updating' = [updating EXCEPT ![u] = "idle"]
    /\ UNCHANGED <<reasons, emergency_changed, inputs_changed, mainVars, lifeVars,
                   setDutyVars, holder, handler, command>>

-----------------------------------------------------------------------------
(* SetDuty of either motor service, run by whoever holds its mutex.        *)

\* GetEmergencyReasons waits for mtx_.
SetDutyRead(s) ==
    /\ phase[s] = "read"
    /\ mtx = NONE
    /\ saw_emergency' = [saw_emergency EXCEPT ![s] = (reasons # {})]
    /\ to_send' = [to_send EXCEPT ![s] = MotorsOf(s)]
    /\ phase' = [phase EXCEPT ![s] = "send"]
    /\ UNCHANGED <<emergencyVars, emergency_changed, inputs_changed, mainVars,
                   lifeVars, duty_sent, duty, holder, handler, command>>

\* One MotorDriver::SetDuty; each driver waits for its UART.
SetDutySend(s, m) ==
    /\ phase[s] = "send"
    /\ IsFirst(m, to_send[s])
    /\ duty' = [duty EXCEPT ![m] = IF saw_emergency[s] THEN 0 ELSE command[m]]
    /\ to_send' = [to_send EXCEPT ![s] = @ \ {m}]
    /\ UNCHANGED <<emergencyVars, emergency_changed, inputs_changed, mainVars,
                   lifeVars, phase, saw_emergency, duty_sent, holder, handler, command>>

SetDutyDone(s) ==
    /\ phase[s] = "send"
    /\ to_send[s] = {}
    /\ phase' = [phase EXCEPT ![s] = "done"]
    /\ saw_emergency' = [saw_emergency EXCEPT ![s] = FALSE]
    /\ duty_sent' = [duty_sent EXCEPT ![s] = TRUE]
    /\ UNCHANGED <<emergencyVars, emergency_changed, inputs_changed, mainVars,
                   lifeVars, to_send, duty, holder, handler, command>>

\* Take the service's mutex for a handler of its own thread that sends the
\* duty unless it was already sent since the last tick.
EnterHandler(s, h) ==
    /\ running[s]
    /\ handler[s] = "idle"
    /\ holder[s] = NONE
    /\ holder' = [holder EXCEPT ![s] = "service"]
    /\ handler' = [handler EXCEPT ![s] = h]
    /\ phase' = [phase EXCEPT ![s] = IF duty_sent[s] THEN "done" ELSE "read"]

-----------------------------------------------------------------------------
(* The motor services' own threads.                                        *)

\* The command of a motor service, as a function on its motors.
WithCommand(s, speeds) == [m \in Motors |-> IF service_of[m] = s THEN speeds[m] ELSE command[m]]
ZeroCommand(s) == WithCommand(s, [m \in Motors |-> 0])

TickBegin(s) ==
    /\ EnterHandler(s, "tick")
    /\ command' = IF command_age[s] = "expired" THEN ZeroCommand(s) ELSE command
    /\ UNCHANGED <<emergencyVars, emergency_changed, inputs_changed, mainVars,
                   lifeVars, saw_emergency, to_send, duty_sent, duty>>

\* Deviation: duty_sent_ is not reset.
TickEndKeepsSent(s, esc_recent) ==
    /\ handler[s] = "tick"
    /\ holder[s] = "service"
    /\ phase[s] = "done"
    /\ command' = IF s \in Blades /\ ~esc_recent THEN ZeroCommand(s) ELSE command
    /\ command_age' = [command_age EXCEPT ![s] = IF @ = "new" THEN "ticked" ELSE @]
    /\ phase' = [phase EXCEPT ![s] = "idle"]
    /\ holder' = [holder EXCEPT ![s] = NONE]
    /\ handler' = [handler EXCEPT ![s] = "idle"]
    /\ UNCHANGED <<emergencyVars, emergency_changed, inputs_changed, mainVars,
                   running, connected, saw_emergency, to_send, duty_sent, duty>>

\* Status requests and messages; MowerService drops its command when the ESC's
\* status is missing or old.
TickEnd(s, esc_recent) ==
    /\ handler[s] = "tick"
    /\ holder[s] = "service"
    /\ phase[s] = "done"
    /\ command' = IF s \in Blades /\ ~esc_recent THEN ZeroCommand(s) ELSE command
    /\ command_age' = [command_age EXCEPT ![s] = IF @ = "new" THEN "ticked" ELSE @]
    /\ duty_sent' = [duty_sent EXCEPT ![s] = FALSE]
    /\ phase' = [phase EXCEPT ![s] = "idle"]
    /\ holder' = [holder EXCEPT ![s] = NONE]
    /\ handler' = [handler EXCEPT ![s] = "idle"]
    /\ UNCHANGED <<emergencyVars, emergency_changed, inputs_changed, mainVars,
                   running, connected, saw_emergency, to_send, duty>>

\* OnControlTwistChanged, OnMowerEnabledChanged.
CommandBegin(s, speeds) ==
    /\ EnterHandler(s, "command")
    /\ command_age' = [command_age EXCEPT ![s] = "new"]
    /\ command' = WithCommand(s, speeds)
    /\ UNCHANGED <<emergencyVars, emergency_changed, inputs_changed, mainVars,
                   running, connected, saw_emergency, to_send, duty_sent, duty>>

CommandEnd(s) ==
    /\ handler[s] = "command"
    /\ holder[s] = "service"
    /\ phase[s] = "done"
    /\ phase' = [phase EXCEPT ![s] = "idle"]
    /\ holder' = [holder EXCEPT ![s] = NONE]
    /\ handler' = [handler EXCEPT ![s] = "idle"]
    /\ UNCHANGED <<emergencyVars, emergency_changed, inputs_changed, mainVars,
                   lifeVars, saw_emergency, to_send, duty_sent, duty, command>>

\* The time since the last command passes the service's timeout, which is many
\* tick periods long (1 s to 40 ms, 10 s to 500 ms).
CommandExpires(s) ==
    /\ \/ command_age[s] = "ticked"
       \/ command_age[s] = "new" /\ ~running[s]
    /\ command_age' = [command_age EXCEPT ![s] = "expired"]
    /\ UNCHANGED <<emergencyVars, emergency_changed, inputs_changed, mainVars,
                   running, connected, setDutyVars, holder, handler, command>>

\* LeftESCCallback, RightESCCallback, ESCCallback, on the drivers' threads.
\* DiffDriveService's callbacks take the service's mutex.
ESCCallback(m) ==
    /\ service_of[m] \in Blades \/ holder[service_of[m]] = NONE
    /\ connected' = connected \cup {m}
    /\ UNCHANGED <<emergencyVars, emergency_changed, inputs_changed, mainVars,
                   running, command_age, setDutyVars, holder, handler, command>>

OnStart(s) ==
    /\ ~running[s]
    /\ running' = [running EXCEPT ![s] = TRUE]
    /\ command' = ZeroCommand(s)
    /\ UNCHANGED <<emergencyVars, emergency_changed, inputs_changed, mainVars,
                   connected, command_age, setDutyVars, holder, handler>>

\* No mutex is taken and nothing is sent to the ESCs.
OnStop(s) ==
    /\ running[s]
    /\ handler[s] = "idle"
    /\ running' = [running EXCEPT ![s] = FALSE]
    /\ command' = ZeroCommand(s)
    /\ connected' = connected \ MotorsOf(s)
    /\ UNCHANGED <<emergencyVars, emergency_changed, inputs_changed, mainVars,
                   command_age, setDutyVars, holder, handler>>

-----------------------------------------------------------------------------
(* DispatchEvents, on the main thread.                                     *)

\* Input::Update raises INPUTS_CHANGED.
InputsChanged ==
    /\ ~inputs_changed
    /\ inputs_changed' = TRUE
    /\ UNCHANGED <<emergencyVars, emergency_changed, mainVars, lifeVars,
                   setDutyVars, holder, handler, command>>

GetAndClearFlags ==
    /\ main = "wait"
    /\ emergency_changed \/ inputs_changed
    /\ main' = "dispatch"
    /\ todo' = IF emergency_changed THEN Services ELSE {}
    /\ check_inputs' = inputs_changed
    /\ emergency_changed' = FALSE
    /\ inputs_changed' = FALSE
    /\ UNCHANGED <<emergencyVars, lifeVars, setDutyVars, holder, handler, command>>

\* OnEmergencyChangedEvent up to its early return.
OnEmergencyChangedEvent(s) ==
    /\ main = "dispatch"
    /\ IsFirst(s, todo)
    /\ mtx = NONE
    /\ IF reasons = {}
       THEN todo' = todo \ {s} /\ UNCHANGED main
       ELSE main' = "lock" /\ UNCHANGED todo
    /\ UNCHANGED <<emergencyVars, emergency_changed, inputs_changed, check_inputs,
                   lifeVars, setDutyVars, holder, handler, command>>

\* Deviations: SetDuty is skipped when a duty was sent since the last tick, as
\* tick() and the command handlers skip it; the command is not zeroed.
EmergencyLockTrustsSent(s) ==
    /\ main = "lock"
    /\ IsFirst(s, todo)
    /\ holder[s] = NONE
    /\ main' = "held"
    /\ holder' = [holder EXCEPT ![s] = "main"]
    /\ command' = ZeroCommand(s)
    /\ phase' = [phase EXCEPT ![s] = IF duty_sent[s] THEN "done" ELSE "read"]
    /\ UNCHANGED <<emergencyVars, emergency_changed, inputs_changed, todo,
                   check_inputs, lifeVars, saw_emergency, to_send, duty_sent,
                   duty, handler>>

EmergencyLockKeepsCommand(s) ==
    /\ main = "lock"
    /\ IsFirst(s, todo)
    /\ holder[s] = NONE
    /\ main' = "held"
    /\ holder' = [holder EXCEPT ![s] = "main"]
    /\ phase' = [phase EXCEPT ![s] = "read"]
    /\ UNCHANGED <<emergencyVars, emergency_changed, inputs_changed, todo,
                   check_inputs, lifeVars, saw_emergency, to_send, duty_sent,
                   duty, handler, command>>

EmergencyLock(s) ==
    /\ main = "lock"
    /\ IsFirst(s, todo)
    /\ holder[s] = NONE
    /\ main' = "held"
    /\ holder' = [holder EXCEPT ![s] = "main"]
    /\ command' = ZeroCommand(s)
    /\ phase' = [phase EXCEPT ![s] = "read"]
    /\ UNCHANGED <<emergencyVars, emergency_changed, inputs_changed, todo,
                   check_inputs, lifeVars, saw_emergency, to_send, duty_sent,
                   duty, handler>>

EmergencyUnlock(s) ==
    /\ main = "held"
    /\ IsFirst(s, todo)
    /\ phase[s] = "done"
    /\ main' = "dispatch"
    /\ todo' = todo \ {s}
    /\ holder' = [holder EXCEPT ![s] = NONE]
    /\ phase' = [phase EXCEPT ![s] = "idle"]
    /\ UNCHANGED <<emergencyVars, emergency_changed, inputs_changed, check_inputs,
                   lifeVars, saw_emergency, to_send, duty_sent, duty, handler, command>>

\* EmergencyService::CheckInputs called by main.
MainCheckInputs(add) ==
    /\ main = "dispatch"
    /\ todo = {}
    /\ check_inputs
    /\ check_inputs' = FALSE
    /\ UpdateEmergency("main", add, MotionReasons)
    /\ UNCHANGED <<emergency_changed, inputs_changed, main, todo, lifeVars,
                   setDutyVars, holder, handler, command>>

DispatchDone ==
    /\ main = "dispatch"
    /\ todo = {}
    /\ ~check_inputs
    /\ updating["main"] = "idle"
    /\ main' = "wait"
    /\ UNCHANGED <<emergencyVars, emergency_changed, inputs_changed, todo,
                   check_inputs, lifeVars, setDutyVars, holder, handler, command>>

-----------------------------------------------------------------------------
\* The steps by which a thread carries on with a call it has begun.
UpdaterStep(u) == BroadcastChange(u) \/ SendStatusLock(u) \/ SendStatusUnlock(u)

HandlerStep(s) ==
    \/ SetDutyRead(s) \/ (\E m \in Motors : SetDutySend(s, m)) \/ SetDutyDone(s)
    \/ (\E r \in BOOLEAN : TickEnd(s, r)) \/ CommandEnd(s)

MainStep ==
    \/ GetAndClearFlags
    \/ \E s \in Services : OnEmergencyChangedEvent(s) \/ EmergencyLock(s) \/ EmergencyUnlock(s)
    \/ \E add \in SUBSET MotionReasons : MainCheckInputs(add)
    \/ DispatchDone

\* The calls that the schedules, the network, the inputs and the clock start.
EmergencyCall ==
    \/ \E add \in SUBSET MotionReasons : EmergencyUpdate(add)
    \/ \E h \in BOOLEAN : CheckRequiredServices(h)
    \/ StatusSchedule

ServiceCall(s) ==
    \/ TickBegin(s)
    \/ \E speeds \in [MotorsOf(s) -> Duties] : CommandBegin(s, speeds)
    \/ CommandExpires(s)
    \/ OnStart(s) \/ OnStop(s)

Next ==
    \/ EmergencyCall
    \/ \E u \in Updaters : UpdaterStep(u)
    \/ \E s \in Services : ServiceCall(s) \/ HandlerStep(s)
    \/ \E m \in Motors : ESCCallback(m)
    \/ InputsChanged
    \/ MainStep

\* A thread that has begun a call carries on with it: when it waits for a mutex
\* it gets it, since ChibiOS hands a mutex to its waiters in order.  The
\* emergency service wakes at least once per status period and then checks the
\* required services; the tick schedule of a running service fires.  Nothing is
\* assumed of commands, inputs, reasons, starts and stops.
Fairness ==
    /\ \A u \in Updaters : SF_vars(UpdaterStep(u))
    /\ SF_vars(\E h \in BOOLEAN : CheckRequiredServices(h))
    /\ \A s \in Services : SF_vars(HandlerStep(s)) /\ SF_vars(TickBegin(s))
    /\ SF_vars(MainStep)

Spec == Init /\ [][Next]_vars
FairSpec == Spec /\ Fairness

-----------------------------------------------------------------------------
(* Properties.                                                             *)

\* The current reasons have not been brought to service s yet: a change is
\* still to be broadcast, or to be fetched by main, or main has not finished
\* with s in the dispatch it is in.
Undelivered(s) ==
    \/ \E u \in Updaters : updating[u] = "broadcast"
    \/ emergency_changed
    \/ s \in todo

\* Once a change of the reasons has been delivered to a motor service, an
\* emergency means that every ESC of that service was last told to stop,
\* whatever SetDuty, command or stop of the service was under way when the
\* emergency was raised (OnEmergencyChangedEvent, SetDuty).
StoppedWhenDelivered ==
    \A m \in Motors : reasons # {} /\ ~Undelivered(service_of[m]) => duty[m] = 0

\* Services that have been told of the last change of the reasons.
Told == {s \in Services : ~Undelivered(s)}

Contract == INSTANCE StopContract WITH told <- Told

\* The threads, locks and events implement the promise of StopContract: every
\* change of the reasons is to be delivered to all services anew, each of them
\* only leaves the dispatch of an emergency with its ESCs at rest, and no
\* SetDuty, command or tick drives them before the next change.
ImplementsContract == Contract!ContractSpec

\* Who holds a service's mutex, and what that says of SetDuty and of main: the
\* part of the inductive invariant that is about locks.
LockInv ==
    /\ main = "wait" => todo = {}
    /\ \A s \in Services :
        /\ (handler[s] # "idle") <=> (holder[s] = "service")
        /\ (phase[s] # "idle") <=> (holder[s] # NONE)
        /\ (holder[s] = "main") <=> (main = "held" /\ IsFirst(s, todo))
        /\ to_send[s] \subseteq MotorsOf(s)
        /\ phase[s] # "send" => to_send[s] = {}

\* While main holds a service's mutex the command is zero, and so is the duty
\* of every ESC its SetDuty has passed.
MainSendsZero ==
    \A m \in Motors : LET s == service_of[m] IN
        holder[s] = "main" =>
            /\ command[m] = 0
            /\ phase[s] \in {"send", "done"} /\ m \notin to_send[s] => duty[m] = 0

\* No SetDuty is sending what it chose before an emergency that has already
\* been delivered to its service.
NoStaleSetDuty ==
    \A s \in Services :
        reasons # {} /\ ~Undelivered(s) /\ phase[s] = "send" => saw_emergency[s]

\* The inductive invariant.
StopInv == TypeOK /\ LockInv /\ MainSendsZero /\ NoStaleSetDuty /\ StoppedWhenDelivered

\* The comment in tick() of both services: when a tick finds the command timed
\* out, duty_sent_ is known to be false.
NothingSentInTimeout ==
    \A s \in Services :
        running[s] /\ handler[s] = "idle" /\ holder[s] = NONE /\ command_age[s] = "expired"
        => ~duty_sent[s]

\* An emergency stops every motor, or is cleared before it does.
EmergencyStopsMotors ==
    \A m \in Motors : reasons # {} ~> (duty[m] = 0 \/ reasons = {})

\* OnStop sends nothing, yet a motor service that stays stopped ends with its
\* ESCs told to stop: CheckRequiredServices raises SERVICE_NOT_READY and main
\* sends the zero.
StoppedServiceStops ==
    \A m \in Motors : ~running[service_of[m]] ~> (duty[m] = 0 \/ running[service_of[m]])

\* A running service whose commands stop coming stops its motors, even when
\* a duty was already sent in the tick that notices the timeout.
CommandTimeoutStops ==
    \A m \in Motors : LET s == service_of[m] IN
        (running[s] /\ command_age[s] = "expired")
        ~> (duty[m] = 0 \/ command_age[s] # "expired" \/ ~running[s])
=============================================================================
