-------------------------- MODULE EmergencyService --------------------------
(***************************************************************************)
(* EmergencyService on top of InputService, in real time: the service's    *)
(* own thread, which sleeps for the block time its checks return, the main *)
(* thread, which runs CheckInputs on INPUTS_CHANGED and drops the block    *)
(* time, the mutex both need, the messages of the high level and the       *)
(* health of the required services.                                        *)
(*                                                                         *)
(* Time is counted in ticks and advances only when no thread has anything  *)
(* to do: a thread that can run is assumed to be done before a tick is     *)
(* over.  All the delays below are many times the run time of a handler.   *)
(***************************************************************************)
EXTENDS InputService

CONSTANTS
    HlTimeout,       \* CheckTimeouts: 1 s without OnHighLevelEmergencyChanged
    RetryInterval,   \* CheckRequiredServices: 100 ms while a service is not ready
    StatusPeriod,    \* status_schedule_: the service wakes at least once per 1 s
    HighLevelValues  \* <<add, clear>> pairs the high level sends

\* Deviation: potential_reasons of CheckInputs without STOP.
CheckedWithoutStop == {"LIFT", "LIFT_MULTIPLE", "COLLISION", "COLLISION_MULTIPLE"}
CheckedInputReasons == {"STOP", "LIFT", "LIFT_MULTIPLE", "COLLISION", "COLLISION_MULTIPLE"}
HighLevelReasons == {"HIGH_LEVEL"}
EmergencyReasons == CheckedInputReasons \cup HighLevelReasons
    \cup {"LATCH", "TIMEOUT_HIGH_LEVEL", "TIMEOUT_INPUTS", "SERVICE_NOT_READY"}

ASSUME EmergencyConstantsAssumption ==
    /\ HlTimeout \in 1..(Wrap - 1)
    /\ RetryInterval \in Nat \ {0}
    /\ StatusPeriod \in Nat \ {0}
    /\ HighLevelValues \subseteq (SUBSET EmergencyReasons) \X (SUBSET EmergencyReasons)

Threads == {"emergency", "main"}
AllChecks == {"inputs", "timeouts", "services"}

\* A call of UpdateEmergency or SendStatus that a thread is in the middle of.
NoCall == [at |-> "none", add |-> {}, clear |-> {}]
UpdateCall(add, clear) == [at |-> "update", add |-> add, clear |-> clear]
StatusCall == [at |-> "status", add |-> {}, clear |-> {}]

VARIABLES
    reasons,        \* reasons_
    last_message,   \* last_high_level_emergency_message_
    running,        \* IsRunning() of the emergency service
    others_healthy, \* IsHealthy() of every required service but the input service
    checks,         \* checks each thread has still to make in its round
    call,           \* the call each thread is in
    mtx_queue,      \* threads that hold (first) or wait for mtx_, in order
    block_time,     \* minimum of the block times of the emergency service's round
    asleep,         \* the emergency service's thread waits for its queue
    sleep,          \* ticks until its wait times out
    \* History variables, read by the properties only.
    held,           \* ticks each active input has been active, up to Wrap
    silence,        \* ticks since the last high level message, up to Wrap
    calm,           \* ticks since an input, its configuration or a service's
                    \* health last changed, up to StatusPeriod
    latch_owed      \* a latching input has fired since LATCH was last cleared

emergencyVars == <<reasons, last_message, running, others_healthy>>
threadVars == <<checks, call, mtx_queue, block_time, asleep, sleep>>
historyVars == <<held, silence, calm, latch_owed>>
vars == <<inputVars, emergencyVars, threadVars, historyVars>>

TypeOK ==
    /\ InputTypeOK
    /\ reasons \subseteq EmergencyReasons
    /\ last_message \in 0..(Wrap - 1)
    /\ running \in BOOLEAN
    /\ others_healthy \in BOOLEAN
    /\ checks \in [Threads -> SUBSET AllChecks]
    /\ call \in [Threads -> [at : {"none", "update", "status"},
                             add : SUBSET EmergencyReasons, clear : SUBSET EmergencyReasons]]
    /\ mtx_queue \in {<<>>, <<"emergency">>, <<"main">>, <<"emergency", "main">>,
                      <<"main", "emergency">>}
    /\ block_time \in 0..StatusPeriod
    /\ asleep \in BOOLEAN
    /\ sleep \in 0..StatusPeriod
    /\ held \in [Slots -> 0..Wrap]
    /\ silence \in 0..Wrap
    /\ calm \in 0..StatusPeriod
    /\ latch_owed \in BOOLEAN

\* RequireService has been called for the required services.
Init ==
    /\ InputInit
    /\ reasons = {"TIMEOUT_INPUTS", "TIMEOUT_HIGH_LEVEL", "SERVICE_NOT_READY"}
    /\ last_message = 0
    /\ running = FALSE
    /\ others_healthy = FALSE
    /\ checks = [t \in Threads |-> {}]
    /\ call = [t \in Threads |-> NoCall]
    /\ mtx_queue = <<>>
    /\ block_time = 0
    /\ asleep = TRUE
    /\ sleep = 0
    /\ held = [i \in Slots |-> 0]
    /\ silence = 0
    /\ calm = 0
    /\ latch_owed = FALSE

-----------------------------------------------------------------------------
(* The mutex and the calls made under it.                                  *)

\* A thread makes a call; it gets mtx_ after the threads already waiting for it.
Enter(t, c) ==
    /\ call[t] = NoCall
    /\ call' = [call EXCEPT ![t] = c]
    /\ mtx_queue' = Append(mtx_queue, t)

\* Deviation: SendStatus is called inside the scope of UpdateEmergency's lock.
UpdateHoldingLock(t) ==
    LET new == (reasons \ call[t].clear) \cup call[t].add IN
    /\ mtx_queue # <<>> /\ Head(mtx_queue) = t
    /\ call[t].at = "update"
    /\ reasons' = new
    /\ IF new = reasons
       THEN /\ call' = [call EXCEPT ![t] = NoCall]
            /\ mtx_queue' = Tail(mtx_queue)
       ELSE /\ call' = [call EXCEPT ![t] = StatusCall]
            /\ mtx_queue' = Append(mtx_queue, t)
    /\ UNCHANGED <<inputVars, last_message, running, others_healthy, checks,
                   block_time, asleep, sleep, historyVars>>

\* UpdateEmergency: an unchanged set ends the call, a changed one is broadcast
\* (to the motor services, see EmergencyStop) and sent with mtx_ taken again.
UpdateEmergency(t) ==
    LET new == (reasons \ call[t].clear) \cup call[t].add IN
    /\ mtx_queue # <<>> /\ Head(mtx_queue) = t
    /\ call[t].at = "update"
    /\ reasons' = new
    /\ IF new = reasons
       THEN /\ call' = [call EXCEPT ![t] = NoCall]
            /\ mtx_queue' = Tail(mtx_queue)
       ELSE /\ call' = [call EXCEPT ![t] = StatusCall]
            /\ mtx_queue' = Append(Tail(mtx_queue), t)
    /\ UNCHANGED <<inputVars, last_message, running, others_healthy, checks,
                   block_time, asleep, sleep, historyVars>>

\* SendStatus is done and releases mtx_.
SendStatus(t) ==
    /\ mtx_queue # <<>> /\ Head(mtx_queue) = t
    /\ call[t].at = "status"
    /\ call' = [call EXCEPT ![t] = NoCall]
    /\ mtx_queue' = Tail(mtx_queue)
    /\ UNCHANGED <<inputVars, emergencyVars, checks, block_time, asleep, sleep, historyVars>>

-----------------------------------------------------------------------------
(* The checks.                                                             *)

Minimum(a, b) == IF a < b THEN a ELSE b

\* OnLoop makes its checks as arguments of two nested calls of min: in any order,
\* except that CheckInputs does not come between the other two.
Check(t, c, add, clear) ==
    /\ c \in checks[t]
    /\ c = "inputs" => Cardinality(checks[t]) # 2
    /\ checks' = [checks EXCEPT ![t] = @ \ {c}]
    /\ Enter(t, UpdateCall(add, clear))
    /\ UNCHANGED <<emergencyVars, asleep, sleep, historyVars>>

\* Deviation: only a pending emergency asks for another call.
NoInputBlockTime(bound) == IF Pending # {} THEN 0 ELSE bound

\* The time GetEmergencyReasons wants to be called again in: at once after a
\* pending emergency, else when the first active input's delay is over.
InputBlockTime(bound) ==
    IF Pending # {} THEN 0
    ELSE CHOOSE b \in 0..bound :
            /\ b = bound \/ \E i \in Waiting : b = config[i].delay - ActiveDuration(i)
            /\ \A i \in Waiting : b <= config[i].delay - ActiveDuration(i)

CheckInputs(t) ==
    /\ Check(t, "inputs", GetEmergencyReasons, CheckedInputReasons)
    /\ ClearPending
    /\ block_time' = IF t = "emergency" THEN InputBlockTime(block_time) ELSE block_time
    /\ UNCHANGED <<micros, input_running, configVars, active, active_since, counterVars,
                   injecting, inputs_changed>>

MessageAge == (micros - last_message) % Wrap

\* Deviation: no block time, as CheckRequiredServices when all is ready.
CheckTimeoutsSleepsOn ==
    /\ Check("emergency", "timeouts", IF MessageAge >= HlTimeout THEN {"TIMEOUT_HIGH_LEVEL"} ELSE {},
             {"TIMEOUT_HIGH_LEVEL", "TIMEOUT_INPUTS"})
    /\ UNCHANGED <<inputVars, block_time>>

CheckTimeouts ==
    /\ Check("emergency", "timeouts", IF MessageAge >= HlTimeout THEN {"TIMEOUT_HIGH_LEVEL"} ELSE {},
             {"TIMEOUT_HIGH_LEVEL", "TIMEOUT_INPUTS"})
    /\ block_time' = IF MessageAge >= HlTimeout THEN block_time
                     ELSE Minimum(block_time, HlTimeout - MessageAge)
    /\ UNCHANGED inputVars

AllReady == others_healthy /\ input_running /\ inputs_configured

CheckRequiredServices ==
    /\ Check("emergency", "services", IF AllReady THEN {} ELSE {"SERVICE_NOT_READY"},
             {"SERVICE_NOT_READY"})
    /\ block_time' = IF AllReady THEN block_time ELSE Minimum(block_time, RetryInterval)
    /\ UNCHANGED inputVars

-----------------------------------------------------------------------------
(* The emergency service's thread.                                         *)

Idle(t) == checks[t] = {} /\ call[t] = NoCall

\* The wait times out, or the status schedule is due and sends first; then OnLoop
\* runs.  The phase of the schedule is not tracked, only that it wakes the
\* service at least once per StatusPeriod.
Wake(status_due) ==
    /\ running /\ asleep /\ Idle("emergency")
    /\ status_due \/ sleep = 0
    /\ asleep' = FALSE
    /\ checks' = [checks EXCEPT !["emergency"] = AllChecks]
    /\ block_time' = StatusPeriod
    /\ IF status_due THEN Enter("emergency", StatusCall) ELSE UNCHANGED <<call, mtx_queue>>
    /\ UNCHANGED <<inputVars, emergencyVars, sleep, historyVars>>

\* The round is over: wait for the block time OnLoop returned.
Sleep ==
    /\ ~asleep /\ Idle("emergency")
    /\ asleep' = TRUE
    /\ sleep' = block_time
    /\ UNCHANGED <<inputVars, emergencyVars, checks, call, mtx_queue, block_time, historyVars>>

\* A message interrupts the wait; OnLoop runs after it.
OnHighLevelEmergencyChanged(add, clear) ==
    /\ running /\ asleep /\ Idle("emergency")
    /\ last_message' = micros
    /\ Enter("emergency", UpdateCall(add, clear \ {"SERVICE_NOT_READY"}))
    /\ asleep' = FALSE
    /\ checks' = [checks EXCEPT !["emergency"] = AllChecks]
    /\ block_time' = StatusPeriod
    /\ silence' = 0
    /\ latch_owed' = IF "LATCH" \in clear THEN \E i \in Pending : "LATCH" \in config[i].reason
                     ELSE latch_owed
    /\ UNCHANGED <<inputVars, reasons, running, others_healthy, sleep, held, calm>>

OnStop ==
    /\ running /\ asleep /\ Idle("emergency")
    /\ running' = FALSE
    /\ Enter("emergency", UpdateCall({"TIMEOUT_HIGH_LEVEL"}, {}))
    /\ UNCHANGED <<inputVars, reasons, last_message, others_healthy, checks, block_time,
                   asleep, sleep, historyVars>>

OnStart ==
    /\ ~running /\ Idle("emergency")
    /\ running' = TRUE
    /\ sleep' = 0
    /\ UNCHANGED <<inputVars, reasons, last_message, others_healthy, checks, call,
                   mtx_queue, block_time, asleep, historyVars>>

-----------------------------------------------------------------------------
(* The main thread, the inputs, the other services and the clock.          *)

\* DispatchEvents on INPUTS_CHANGED.
MainOnInputsChanged ==
    /\ Idle("main")
    /\ inputs_changed
    /\ inputs_changed' = FALSE
    /\ checks' = [checks EXCEPT !["main"] = {"inputs"}]
    /\ UNCHANGED <<micros, input_running, configVars, stateVars, counterVars, injecting,
                   emergencyVars, call, mtx_queue, block_time, asleep, sleep, historyVars>>

\* Inputs that were active for their delay and are released by this step.
Fired == {i \in Slots : active[i] /\ ~active'[i] /\ held[i] \in config[i].delay..(Wrap - 1)}

\* A step of the inputs.  A new configuration forgets what was pending.
InputsStep ==
    /\ \/ Reload /\ latch_owed' = FALSE
       \/ /\ InputEvent
          /\ latch_owed' = (latch_owed \/ \E i \in Fired : "LATCH" \in config[i].reason)
    /\ held' = [i \in Slots |-> IF active'[i] /\ active[i] THEN held[i] ELSE 0]
    /\ calm' = 0
    /\ UNCHANGED <<emergencyVars, threadVars, silence>>

OthersChange ==
    /\ others_healthy' = ~others_healthy
    /\ calm' = 0
    /\ UNCHANGED <<inputVars, reasons, last_message, running, threadVars, held, silence, latch_owed>>

\* One tick passes when every thread waits.
Tick ==
    /\ mtx_queue = <<>> /\ \A t \in Threads : Idle(t)
    /\ asleep /\ (running => sleep > 0)
    /\ ~inputs_changed /\ injecting = {}
    /\ ClockTick
    /\ sleep' = IF sleep > 0 THEN sleep - 1 ELSE 0
    /\ held' = [i \in Slots |-> IF active[i] THEN Minimum(held[i] + 1, Wrap) ELSE 0]
    /\ silence' = Minimum(silence + 1, Wrap)
    /\ calm' = Minimum(calm + 1, StatusPeriod)
    /\ UNCHANGED <<emergencyVars, checks, call, mtx_queue, block_time, asleep, latch_owed>>

ThreadStep ==
    \/ \E t \in Threads : CheckInputs(t) \/ UpdateEmergency(t) \/ SendStatus(t)
    \/ CheckTimeouts \/ CheckRequiredServices
    \/ \E b \in BOOLEAN : Wake(b)
    \/ Sleep
    \/ MainOnInputsChanged

Environment ==
    \/ \E v \in HighLevelValues : OnHighLevelEmergencyChanged(v[1], v[2])
    \/ OnStart \/ OnStop
    \/ InputsStep
    \/ OthersChange

Next == ThreadStep \/ Environment \/ Tick

Spec == Init /\ [][Next]_vars

-----------------------------------------------------------------------------
(* Properties.                                                             *)

\* Every thread waits and the emergency service has made its round.
Settled ==
    /\ mtx_queue = <<>> /\ \A t \in Threads : Idle(t)
    /\ asleep /\ (running => sleep > 0)
    /\ ~inputs_changed

\* An input that stays active is reported once its delay is over, or one status
\* period after its activation if that is later: main's CheckInputs drops the
\* block time, so the service learns of the delay only when it next wakes.
ReportedInTime ==
    Settled /\ running =>
        \A i \in Watched :
            /\ active[i] /\ held[i] \in 0..(Wrap - 1)
            /\ held[i] >= config[i].delay /\ held[i] >= StatusPeriod
            => config[i].reason \subseteq reasons

\* Silence of the high level for HlTimeout engages TIMEOUT_HIGH_LEVEL, whatever
\* else wakes the service; so does stopping the service, at once (OnStop).
SilenceEngages ==
    Settled /\ (running => silence \in HlTimeout..(Wrap - 1)) => "TIMEOUT_HIGH_LEVEL" \in reasons

\* The same without a bound on the silence: a timeout-based shutdown lasts until
\* the high level is back.
SilenceStaysEngaged ==
    Settled /\ running /\ silence >= HlTimeout => "TIMEOUT_HIGH_LEVEL" \in reasons

\* When nothing has changed for a status period the reasons are exactly what
\* the inputs, the silence and the services give, apart from what only the
\* high level sets or clears: no check's older result survives a newer one.
ReasonsExact ==
    Settled /\ running /\ calm = StatusPeriod /\ silence < Wrap /\ (\A i \in Slots : held[i] < Wrap) =>
        reasons \ (HighLevelReasons \cup {"LATCH"}) =
            (UNION {config[i].reason \ {"LATCH"} : i \in TimedOut})
            \cup (IF silence >= HlTimeout THEN {"TIMEOUT_HIGH_LEVEL"} ELSE {})
            \cup (IF AllReady THEN {} ELSE {"SERVICE_NOT_READY"})

\* However short the press, an input with LATCH that was active for its delay
\* leaves LATCH set until the high level clears it or the inputs are reloaded.
LatchHolds == Settled /\ latch_owed => "LATCH" \in reasons
=============================================================================
