---------------------------- MODULE InputService ----------------------------
(***************************************************************************)
(* InputService and Input: the configured inputs, their debounced state,   *)
(* the lift and collision counters and the two virtual inputs that become  *)
(* active when two or more lift or collision inputs are.                   *)
(*                                                                         *)
(* Inputs are the slots of all_inputs_: slots 0 and 1 are the virtual      *)
(* inputs, slot k + 2 is the input with idx k.  Each action is the stretch *)
(* of a handler up to the network send at its end: the drivers that run at *)
(* the services' priority are not interrupted inside it.                   *)
(***************************************************************************)
EXTENDS Integers, FiniteSets, Sequences

CONSTANTS
    MaxInputs,              \* capacity of all_inputs_ without the virtual inputs (30)
    MaxGroups,              \* MAX_REDUNDANCY_GROUPS (4)
    LiftMultipleDelay,      \* delays of the virtual inputs
    CollisionMultipleDelay,
    Wrap,                   \* range of getTimeMicros(): 2^32
    Requests,               \* input configurations the high level may send
    PressDelays             \* GetPressDelay() of a short and of a long press

NoName == "no group"
InputReasons == {"STOP", "LIFT", "COLLISION", "LATCH"}

\* One input of a configuration, as the JSON gives it.  valid: all its
\* attributes are known and well typed; own_thread: its driver updates it from
\* a thread of its own (yf_cover_ui) and not from the input service's thread.
RequestEntry == [reason : SUBSET InputReasons, delay : 0..(Wrap - 1), group : STRING,
                 own_thread : BOOLEAN, valid : BOOLEAN]

ASSUME InputConstantsAssumption ==
    /\ MaxInputs \in Nat
    /\ MaxGroups \in Nat
    /\ Wrap \in Nat \ {0}
    /\ LiftMultipleDelay \in 0..(Wrap - 1)
    /\ CollisionMultipleDelay \in 0..(Wrap - 1)
    /\ Requests \subseteq Seq(RequestEntry)
    /\ PressDelays \subseteq 0..(Wrap - 1)

lift_multiple_input == 0
collision_multiple_input == 1
Slots == 0..(MaxInputs + 1)
RealInputs == 2..(MaxInputs + 1)
Groups == 1..MaxGroups

\* What the service keeps of an input's configuration.  group 0 means none.
InputConfig == [reason : SUBSET (InputReasons \cup {"LIFT_MULTIPLE", "COLLISION_MULTIPLE"}),
                delay : 0..(Wrap - 1), group : 0..MaxGroups, own_thread : BOOLEAN]
Unconfigured == [reason |-> {}, delay |-> 0, group |-> 0, own_thread |-> FALSE]

VARIABLES
    micros,               \* getTimeMicros()
    input_running,        \* IsRunning() of the input service
    inputs_configured,    \* inputs_configured_
    all_inputs,           \* occupied slots of all_inputs_
    config,               \* configuration of each slot
    active,               \* Input::active
    active_since,         \* Input::active_since
    emergency_pending,    \* Input::emergency_pending
    num_active_lift,      \* num_active_lift_
    num_active_collision, \* num_active_collision_
    group_refcount,       \* redundancy_group_refcount_
    injecting,            \* inputs pressed by an InjectPress that is still to release them
    inputs_changed        \* INPUTS_CHANGED raised and not yet fetched by main

counterVars == <<num_active_lift, num_active_collision, group_refcount>>
stateVars == <<active, active_since, emergency_pending>>
configVars == <<inputs_configured, all_inputs, config>>
inputVars == <<micros, input_running, configVars, stateVars, counterVars, injecting,
               inputs_changed>>

InputTypeOK ==
    /\ micros \in 0..(Wrap - 1)
    /\ input_running \in BOOLEAN
    /\ inputs_configured \in BOOLEAN
    /\ all_inputs \in SUBSET Slots
    /\ config \in [Slots -> InputConfig]
    /\ active \in [Slots -> BOOLEAN]
    /\ active_since \in [Slots -> 0..(Wrap - 1)]
    /\ emergency_pending \in [Slots -> BOOLEAN]
    /\ num_active_lift \in Nat
    /\ num_active_collision \in Nat
    /\ group_refcount \in [Groups -> Nat]
    /\ injecting \in SUBSET RealInputs
    /\ inputs_changed \in BOOLEAN

InputInit ==
    /\ micros = 0
    /\ input_running = FALSE
    /\ inputs_configured = FALSE
    /\ all_inputs = {}
    /\ config = [i \in Slots |-> Unconfigured]
    /\ active = [i \in Slots |-> FALSE]
    /\ active_since = [i \in Slots |-> 0]
    /\ emergency_pending = [i \in Slots |-> FALSE]
    /\ num_active_lift = 0
    /\ num_active_collision = 0
    /\ group_refcount = [g \in Groups |-> 0]
    /\ injecting = {}
    /\ inputs_changed = FALSE

-----------------------------------------------------------------------------
(* Configuration.                                                          *)

\* Names of the redundancy groups met up to entry k of a request.
GroupNames(request, k) == {request[j].group : j \in 1..k} \ {NoName}

\* Parsing stops at entry k: no slot left, a bad attribute, or one group too many.
ParseFails(request, k) ==
    \/ k > MaxInputs
    \/ ~request[k].valid
    \/ Cardinality(GroupNames(request, k)) > MaxGroups

\* The entries that parsing leaves behind: all of them, or those before the
\* first that fails.
Parsed(request) ==
    {k \in 1..Len(request) : \A j \in 1..k : ~ParseFails(request, j)}

\* A group gets the next free id when its name is first met: the number of
\* names met by then, its own included.
GroupId(request, k) ==
    IF request[k].group = NoName THEN 0
    ELSE Cardinality({n \in GroupNames(request, k) :
            \A j \in 1..k : request[j].group = request[k].group => n \in GroupNames(request, j)})

\* The failing entry itself has already taken a slot, if there was one.
PartialEntry(request) ==
    {k \in 1..Len(request) : k <= MaxInputs /\ k \notin Parsed(request)
                             /\ \A j \in 1..(k - 1) : j \in Parsed(request)}

\* What it holds of its configuration depends on the order of its attributes;
\* LATCH is set when its "emergency" begins.
PartialConfigs(request) ==
    IF PartialEntry(request) = {} THEN {Unconfigured}
    ELSE UNION {[reason : SUBSET (request[k].reason \cup {"LATCH"}),
                 delay : {0, request[k].delay},
                 group : {0, GroupId(request, k)} \cap 0..MaxGroups,
                 own_thread : {request[k].own_thread}] : k \in PartialEntry(request)}

VirtualInput(reason, delay) ==
    [reason |-> {reason, "LATCH"}, delay |-> delay, group |-> 0, own_thread |-> FALSE]

\* Slot i after a request has been parsed.
SlotConfig(request, partial, i) ==
    IF i = lift_multiple_input THEN VirtualInput("LIFT_MULTIPLE", LiftMultipleDelay)
    ELSE IF i = collision_multiple_input
         THEN VirtualInput("COLLISION_MULTIPLE", CollisionMultipleDelay)
    ELSE IF i - 1 \in Parsed(request)
         THEN [reason |-> request[i - 1].reason, delay |-> request[i - 1].delay,
               group |-> GroupId(request, i - 1), own_thread |-> request[i - 1].own_thread]
    ELSE IF i - 1 \in PartialEntry(request) THEN partial
    ELSE Unconfigured

\* Deviation: the refcounts of the redundancy groups survive a reload.
ReloadKeepsRefcounts(request, partial) ==
    /\ inputs_configured' = (Parsed(request) = 1..Len(request))
    /\ all_inputs' = {lift_multiple_input, collision_multiple_input}
                     \cup {k + 1 : k \in Parsed(request) \cup PartialEntry(request)}
    /\ config' = [i \in Slots |-> SlotConfig(request, partial, i)]
    /\ active' = [i \in Slots |-> FALSE]
    /\ active_since' = [i \in Slots |-> 0]
    /\ emergency_pending' = [i \in Slots |-> FALSE]
    /\ num_active_lift' = 0
    /\ num_active_collision' = 0
    /\ UNCHANGED <<micros, input_running, group_refcount, injecting, inputs_changed>>

OnRegisterInputConfigsChanged(request, partial) ==
    /\ inputs_configured' = (Parsed(request) = 1..Len(request))
    /\ all_inputs' = {lift_multiple_input, collision_multiple_input}
                     \cup {k + 1 : k \in Parsed(request) \cup PartialEntry(request)}
    /\ config' = [i \in Slots |-> SlotConfig(request, partial, i)]
    /\ active' = [i \in Slots |-> FALSE]
    /\ active_since' = [i \in Slots |-> 0]
    /\ emergency_pending' = [i \in Slots |-> FALSE]
    /\ num_active_lift' = 0
    /\ num_active_collision' = 0
    /\ group_refcount' = [g \in Groups |-> 0]
    /\ UNCHANGED <<micros, input_running, injecting, inputs_changed>>

InputOnStart ==
    /\ ~input_running
    /\ input_running' = TRUE
    /\ UNCHANGED <<micros, configVars, stateVars, counterVars, injecting, inputs_changed>>

\* The drivers stop listening; inputs keep the state they had.
InputOnStop ==
    /\ input_running
    /\ input_running' = FALSE
    /\ UNCHANGED <<micros, configVars, stateVars, counterVars, injecting, inputs_changed>>

-----------------------------------------------------------------------------
(* State changes.                                                          *)

ActiveDuration(i) == (micros - active_since[i]) % Wrap

\* OnInputChanged's effect on num_active_lift_: the group counts as one lift.
LiftCount(i, new_active) ==
    LET g == config[i].group
        edge == \/ g = 0
                \/ new_active /\ group_refcount[g] = 0
                \/ ~new_active /\ group_refcount[g] = 1
    IN num_active_lift + (IF "LIFT" \notin config[i].reason \/ ~edge THEN 0
                          ELSE IF new_active THEN 1 ELSE -1)

CollisionCount(i, new_active) ==
    num_active_collision + (IF "COLLISION" \notin config[i].reason THEN 0
                            ELSE IF new_active THEN 1 ELSE -1)

\* Deviation: the virtual inputs are updated on activation only.
NewActiveNoRelease(i, new_active) ==
    [j \in Slots |->
        IF j = i THEN new_active
        ELSE IF j = lift_multiple_input /\ "LIFT" \in config[i].reason /\ new_active
             THEN LiftCount(i, new_active) >= 2
        ELSE IF j = collision_multiple_input /\ "COLLISION" \in config[i].reason /\ new_active
             THEN CollisionCount(i, new_active) >= 2
        ELSE active[j]]

\* Which inputs are active after input i became new_active: i itself, and the
\* virtual inputs that OnInputChanged updates in turn.
NewActive(i, new_active) ==
    [j \in Slots |->
        IF j = i THEN new_active
        ELSE IF j = lift_multiple_input /\ "LIFT" \in config[i].reason
             THEN LiftCount(i, new_active) >= 2
        ELSE IF j = collision_multiple_input /\ "COLLISION" \in config[i].reason
             THEN CollisionCount(i, new_active) >= 2
        ELSE active[j]]

\* Input::Update of a real input whose level changed, OnInputChanged and the
\* updates of the virtual inputs included.
Update(i, new_active, predate) ==
    LET level == NewActive(i, new_active)
        g == config[i].group
    IN
    /\ i \in all_inputs \cap RealInputs
    /\ active[i] # new_active
    /\ active' = level
    /\ active_since' = [j \in Slots |->
         IF level[j] /\ ~active[j] THEN (micros - (IF j = i THEN predate ELSE 0)) % Wrap
         ELSE active_since[j]]
    /\ emergency_pending' = [j \in Slots |->
         \/ emergency_pending[j]
         \/ /\ active[j] /\ ~level[j]
            /\ config[j].reason # {}
            /\ ActiveDuration(j) >= config[j].delay]
    /\ num_active_lift' = LiftCount(i, new_active)
    /\ num_active_collision' = CollisionCount(i, new_active)
    /\ group_refcount' = IF "LIFT" \notin config[i].reason \/ g = 0 THEN group_refcount
                         ELSE [group_refcount EXCEPT ![g] = IF new_active THEN @ + 1 ELSE @ - 1]
    /\ inputs_changed' = TRUE

\* A driver reads a new level: the ticks of the gpio, worx and sabo drivers, the
\* simulated inputs, the cover UI's emergency message.
DriverUpdate(i, new_active) ==
    /\ input_running \/ config[i].own_thread
    /\ i \notin injecting
    /\ Update(i, new_active, 0)
    /\ UNCHANGED <<micros, input_running, configVars, injecting>>

\* InjectPress of a cover UI button: a press dated back, then the release.
InjectPress(i, duration) ==
    /\ config[i].own_thread
    /\ injecting = {}
    /\ injecting' = {i}
    /\ Update(i, TRUE, duration)
    /\ UNCHANGED <<micros, input_running, configVars>>

InjectRelease(i) ==
    /\ i \in injecting
    /\ injecting' = {}
    /\ IF i \in all_inputs /\ active[i]
       THEN Update(i, FALSE, 0)
       ELSE UNCHANGED <<stateVars, counterVars, inputs_changed>>
    /\ UNCHANGED <<micros, input_running, configVars>>

-----------------------------------------------------------------------------
(* GetEmergencyReasons, called by the emergency service.                   *)

Watched == {i \in all_inputs : config[i].reason # {}}
\* Deviation: a pending emergency is looked for in active inputs only.
PendingIfActive == {i \in Watched : emergency_pending[i] /\ active[i]}
Pending == {i \in Watched : emergency_pending[i]}
TimedOut == {i \in Watched \ Pending : active[i] /\ ActiveDuration(i) >= config[i].delay}
Waiting == {i \in Watched \ Pending : active[i] /\ ActiveDuration(i) < config[i].delay}

GetEmergencyReasons == UNION {config[i].reason : i \in Pending \cup TimedOut}

ClearPending ==
    emergency_pending' = [i \in Slots |-> emergency_pending[i] /\ i \notin Pending]

-----------------------------------------------------------------------------
(* The input service by itself.                                            *)

Reload ==
    \E request \in Requests : \E partial \in PartialConfigs(request) :
        OnRegisterInputConfigsChanged(request, partial)

InputEvent ==
    \/ InputOnStart \/ InputOnStop
    \/ \E i \in RealInputs : \/ \E b \in BOOLEAN : DriverUpdate(i, b)
                             \/ \E d \in PressDelays : InjectPress(i, d)
                             \/ InjectRelease(i)

InputStep == Reload \/ InputEvent

\* The emergency service and main poll the inputs.
Poll ==
    /\ ClearPending
    /\ inputs_changed' = FALSE
    /\ UNCHANGED <<micros, input_running, configVars, active, active_since, counterVars, injecting>>

ClockTick ==
    /\ micros' = (micros + 1) % Wrap
    /\ UNCHANGED <<input_running, configVars, stateVars, counterVars, injecting, inputs_changed>>

InputNext == InputStep \/ Poll \/ ClockTick
InputSpec == InputInit /\ [][InputNext]_inputVars

-----------------------------------------------------------------------------
(* Properties.                                                             *)

ActiveWith(reason) == {i \in RealInputs : active[i] /\ reason \in config[i].reason}
UngroupedLifts == {i \in ActiveWith("LIFT") : config[i].group = 0}
LiftsInGroup(g) == {i \in ActiveWith("LIFT") : config[i].group = g}
LiftedGroups == {g \in Groups : LiftsInGroup(g) # {}}

\* After any sequence of updates, injected presses and reloads the counters of
\* OnInputChanged agree with the inputs: a redundancy group counts as one lift
\* however many of its members are active, and its refcount is their number.
CountersAgree ==
    /\ num_active_lift = Cardinality(UngroupedLifts) + Cardinality(LiftedGroups)
    /\ num_active_collision = Cardinality(ActiveWith("COLLISION"))
    /\ \A g \in Groups : group_refcount[g] = Cardinality(LiftsInGroup(g))

\* "It takes two or more lift sensors to cause a LIFT_MULTIPLE emergency", and
\* two or more collision sensors a COLLISION_MULTIPLE one.
MultipleNeedsTwo ==
    /\ active[lift_multiple_input] <=> num_active_lift >= 2
    /\ active[collision_multiple_input] <=> num_active_collision >= 2

\* The inductive invariant.
InputInv == InputTypeOK /\ CountersAgree /\ MultipleNeedsTwo
=============================================================================
