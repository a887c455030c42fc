----------------------------- MODULE DriveStatus -----------------------------
(***************************************************************************)
(* The status half of DiffDriveService: the ESC callbacks, which pair the  *)
(* reports of the two wheels, the twist computed from a pair, and the      *)
(* disconnected messages of tick.  The duty half of tick and of OnStart    *)
(* and OnStop is in EmergencyStop.  Every step below holds state_mutex_,   *)
(* except OnStart and OnStop, which the code runs without it and which do  *)
(* not block.                                                              *)
(*                                                                         *)
(* The drivers run whether or not the service does (they are started in    *)
(* OnCreate), so an ESC may report at any time.                            *)
(***************************************************************************)
EXTENDS Integers

CONSTANTS
    Positions,         \* bound: positions a wheel can be in, in ticks
    Wrap,              \* 2^32: the tachometer and the ticks are uint32_t
    Failures           \* TRUE: ESCs may fall silent and come back

ASSUME DriveAssumption ==
    /\ Wrap \in Nat \ {0}
    /\ Wrap % 2 = 0
    /\ Positions # {} /\ Positions \subseteq Int
    /\ \A p, q \in Positions : p - q < Wrap \div 2    \* between two reports
    /\ Failures \in BOOLEAN

Sides == {"left", "right"}
Other(s) == IF s = "left" THEN "right" ELSE "left"

None == << >>            \* no function with domain Sides

VARIABLES
    position,          \* of the wheels
    alive,             \* the ESC reports
    running,           \* the service runs
    measured,          \* the position in left_esc_state_, right_esc_state_
    esc_state_valid,   \* left_esc_state_valid_, right_esc_state_valid_
    escs_connected,    \* the sides whose bit is set
    last_ticks,        \* last_ticks_left, last_ticks_right
    last_ticks_valid,
    recent,            \* the last pair is at most 1 s old (32 bit clock)
    reported,          \* status the host was last sent for each ESC
    twist,             \* the twist sent in the last step, or None
    base,              \* history: the last pair's positions, if of this session
    paired             \* history: a pair was processed since the service stopped

wheelVars == <<last_ticks, last_ticks_valid, recent, base, paired>>
statusVars == <<position, alive, running, measured, esc_state_valid, escs_connected, wheelVars, reported, twist>>

StatusInit ==
    /\ \E p \in Positions : position = [s \in Sides |-> p] /\ measured = position
    /\ alive = [s \in Sides |-> TRUE]
    /\ running = FALSE
    /\ esc_state_valid = [s \in Sides |-> FALSE]
    /\ escs_connected = {}
    /\ last_ticks = [s \in Sides |-> 0]
    /\ last_ticks_valid = FALSE
    /\ recent = TRUE
    /\ reported = [s \in Sides |-> "none"]
    /\ twist = None
    /\ base = None
    /\ paired = FALSE

\* static_cast<int32_t>(tacho - last_ticks)
Ticks(now, before) ==
    LET d == (now - before) % Wrap IN IF d < Wrap \div 2 THEN d ELSE d - Wrap

Tacho(p) == p % Wrap

\* Deviation: only the right state is used up.
ValidAfterPairOfLeft(s) == s = "left"

ValidAfterPair(s) == FALSE

\* Both states are there and valid: a twist, once there is a pair to compare with.
ProcessStatusUpdate(states) ==
    /\ recent' = TRUE
    /\ reported' = [s \in Sides |-> "ok"]
    /\ twist' = IF last_ticks_valid
                THEN [s \in Sides |-> Ticks(Tacho(states[s]), last_ticks[s])]
                ELSE None
    /\ last_ticks_valid' = TRUE
    /\ last_ticks' = [s \in Sides |-> Tacho(states[s])]
    /\ base' = states
    /\ paired' = TRUE
    /\ esc_state_valid' = [s \in Sides |-> ValidAfterPair(s)]

ESCCallback(s) ==
    /\ alive[s]
    /\ measured' = [measured EXCEPT ![s] = position[s]]
    /\ escs_connected' = escs_connected \cup {s}
    /\ IF esc_state_valid[Other(s)]
       THEN ProcessStatusUpdate(measured')
       ELSE /\ esc_state_valid' = [esc_state_valid EXCEPT ![s] = TRUE]
            /\ twist' = None
            /\ UNCHANGED <<wheelVars, reported>>
    /\ UNCHANGED <<position, alive, running>>

tick ==
    /\ running
    /\ reported' = [s \in Sides |-> IF ~recent /\ ~esc_state_valid[s]
                                    THEN "disconnected" ELSE reported[s]]
    /\ twist' = None
    /\ UNCHANGED <<position, alive, running, measured, esc_state_valid, escs_connected, wheelVars>>

\* Deviation: OnStart leaves the ticks to OnStop.
KeepTicksValid == last_ticks_valid

TicksValidAtStart == FALSE

\* A configuration without wheel distance or ticks fails and is retried.
OnStart ==
    /\ ~running
    /\ running' = TRUE
    /\ last_ticks_valid' = TicksValidAtStart
    /\ base' = None
    /\ twist' = None
    /\ UNCHANGED <<position, alive, measured, esc_state_valid, escs_connected, last_ticks,
                   recent, reported, paired>>

\* Deviation: an ESC once heard of counts as connected for ever.
ConnectedEver == escs_connected

ConnectedAfterStop == {}

OnStop ==
    /\ running
    /\ running' = FALSE
    /\ last_ticks_valid' = FALSE
    /\ escs_connected' = ConnectedAfterStop
    /\ base' = None
    /\ paired' = FALSE
    /\ twist' = None
    /\ UNCHANGED <<position, alive, measured, esc_state_valid, last_ticks, recent, reported>>

IsHealthy == running /\ escs_connected = Sides
-----------------------------------------------------------------------------
(***************************************************************************)
(* The surroundings.                                                       *)
(***************************************************************************)

Roll ==
    /\ \E s \in Sides, p \in Positions : position' = [position EXCEPT ![s] = p]
    /\ twist' = None
    /\ UNCHANGED <<alive, running, measured, esc_state_valid, escs_connected, wheelVars, reported>>

EscFallsSilentOrReturns ==
    /\ Failures
    /\ \E s \in Sides : alive' = [alive EXCEPT ![s] = ~@]
    /\ twist' = None
    /\ UNCHANGED <<position, running, measured, esc_state_valid, escs_connected, wheelVars, reported>>

SecondPasses ==
    /\ recent
    /\ recent' = FALSE
    /\ twist' = None
    /\ UNCHANGED <<position, alive, running, measured, esc_state_valid, escs_connected,
                   last_ticks, last_ticks_valid, base, paired, reported>>

\* After 71.6 minutes the difference of the 32 bit times starts at 0 again.
MicrosWrap ==
    /\ ~recent
    /\ recent' = TRUE
    /\ twist' = None
    /\ UNCHANGED <<position, alive, running, measured, esc_state_valid, escs_connected,
                   last_ticks, last_ticks_valid, base, paired, reported>>

StatusNext ==
    \/ \E s \in Sides : ESCCallback(s)
    \/ tick \/ OnStart \/ OnStop
    \/ Roll \/ EscFallsSilentOrReturns \/ SecondPasses \/ MicrosWrap

StatusSpec == StatusInit /\ [][StatusNext]_statusVars
-----------------------------------------------------------------------------
(***************************************************************************)
(* Properties.                                                             *)
(***************************************************************************)

(***************************************************************************)
(* ProcessStatusUpdate: a twist is exactly what the wheels have moved      *)
(* between two pairs of the session that is running, over the wrap of the  *)
(* tachometers and backwards too; a pair recorded while the service was    *)
(* stopped is never compared with.                                         *)
(***************************************************************************)
TwistExact ==
    [][twist' # None =>
         base # None /\ \A s \in Sides : twist'[s] = measured'[s] - base[s]]_statusVars

(***************************************************************************)
(* IsHealthy, which lets the emergency SERVICE_NOT_READY be cleared: the   *)
(* host has been sent the status of both ESCs since the service last       *)
(* stopped, although reports left over from before the stop are paired     *)
(* with new ones and reports go on while the service is stopped.           *)
(***************************************************************************)
HealthyHasStatus == IsHealthy => paired

(***************************************************************************)
(* tick: when an ESC falls silent for good, the host is told that an ESC   *)
(* is disconnected, and goes on being told so, whatever the other ESC      *)
(* does: reports of one wheel alone do not pass for status updates.        *)
(***************************************************************************)
SilenceNoticed ==
    \A s \in Sides :
        <>[](running /\ ~alive[s]) => <>[](\E t \in Sides : reported[t] = "disconnected")
=============================================================================
