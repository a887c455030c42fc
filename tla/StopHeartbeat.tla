---------------------------- MODULE StopHeartbeat ----------------------------
(***************************************************************************)
(* The rear stop button of the Sabo robot.  The handle sends pulses unless *)
(* the button is pressed; an interrupt counts them, a timer takes the      *)
(* count every 200 ms, and the input driver's Tick compares it with the    *)
(* minimum.  The pulse interrupt (EXTI, priority 6) preempts the timer's   *)
(* (priority 8), so it may come between the timer's read and its reset.    *)
(* Time is counted in units; what is due in a unit happens in any order.   *)
(***************************************************************************)
EXTENDS Integers

CONSTANTS
    Gaps,              \* times between two pulses
    HEARTBEAT_CHECK_INTERVAL,
    HEARTBEAT_MIN,     \* heartbeat_min_
    TickPeriod,        \* the schedule of Tick: 20 ms
    CounterRange       \* 2^16: heartbeat_counter_ is a uint16_t

ASSUME HeartbeatAssumption ==
    /\ Gaps # {} /\ Gaps \subseteq Nat \ {0}
    /\ {HEARTBEAT_CHECK_INTERVAL, HEARTBEAT_MIN, TickPeriod} \subseteq Nat \ {0}
    /\ CounterRange \in Nat /\ CounterRange > HEARTBEAT_CHECK_INTERVAL + 1

VARIABLES
    button_pressed,
    pulse_in, check_in, tick_in,    \* time to the next pulse, timer and Tick
    heartbeat_counter,
    heartbeat_last,
    current,           \* of HeartbeatTimerCallback, or -1 when it does not run
    stop_active,            \* the input
    unchanged_for      \* history: time since the button moved, up to Settled

timeVars == <<pulse_in, check_in, tick_in, unchanged_for>>
pulseVars == <<heartbeat_counter, heartbeat_last, current>>
heartbeatVars == <<button_pressed, timeVars, pulseVars, stop_active>>

\* Two checks and a Tick after the button moved, the input has followed.
Settled == 2 * HEARTBEAT_CHECK_INTERVAL + TickPeriod + 1

HeartbeatInit ==
    /\ button_pressed \in BOOLEAN
    /\ pulse_in \in Gaps
    /\ check_in = HEARTBEAT_CHECK_INTERVAL
    /\ tick_in \in 1..TickPeriod
    /\ heartbeat_counter = 0
    /\ heartbeat_last = 0
    /\ current = -1
    /\ stop_active = FALSE
    /\ unchanged_for = 0

HeartbeatISR ==
    /\ ~button_pressed
    /\ pulse_in = 0
    /\ heartbeat_counter' = (heartbeat_counter + 1) % CounterRange
    /\ pulse_in' \in Gaps
    /\ UNCHANGED <<button_pressed, check_in, tick_in, unchanged_for, heartbeat_last, current, stop_active>>

\* Read the counter ...
HeartbeatTimerRead ==
    /\ check_in = 0
    /\ current = -1
    /\ current' = heartbeat_counter
    /\ UNCHANGED <<button_pressed, timeVars, heartbeat_counter, heartbeat_last, stop_active>>

\* Deviation: the counter is not reset.
CounterKept == heartbeat_counter

CounterAfterReset == 0

\* ... and reset it.
HeartbeatTimerReset ==
    /\ current # -1
    /\ heartbeat_counter' = CounterAfterReset
    /\ heartbeat_last' = current
    /\ current' = -1
    /\ check_in' = HEARTBEAT_CHECK_INTERVAL
    /\ UNCHANGED <<button_pressed, pulse_in, tick_in, unchanged_for, stop_active>>

\* Deviation: the minimum itself is too little.
TooFewOrEqual == heartbeat_last <= HEARTBEAT_MIN

\* GetSensorState(STOP_REAR)
GetSensorState == heartbeat_last < HEARTBEAT_MIN

Tick ==
    /\ tick_in = 0
    /\ current = -1    \* a thread does not run while the timer's interrupt does
    /\ stop_active' = GetSensorState
    /\ tick_in' = TickPeriod
    /\ UNCHANGED <<button_pressed, pulse_in, check_in, unchanged_for, pulseVars>>

ButtonMoves ==
    /\ button_pressed' = ~button_pressed
    /\ pulse_in' \in IF button_pressed THEN Gaps ELSE {pulse_in}
    /\ unchanged_for' = 0
    /\ UNCHANGED <<check_in, tick_in, pulseVars, stop_active>>

TimePasses ==
    /\ check_in > 0 /\ tick_in > 0 /\ (button_pressed \/ pulse_in > 0)
    /\ check_in' = check_in - 1
    /\ tick_in' = tick_in - 1
    /\ pulse_in' = IF button_pressed THEN pulse_in ELSE pulse_in - 1
    /\ unchanged_for' = IF unchanged_for < Settled THEN unchanged_for + 1 ELSE Settled
    /\ UNCHANGED <<button_pressed, pulseVars, stop_active>>

HeartbeatNext ==
    \/ HeartbeatISR \/ HeartbeatTimerRead \/ HeartbeatTimerReset \/ Tick
    \/ ButtonMoves \/ TimePasses

HeartbeatSpec == HeartbeatInit /\ [][HeartbeatNext]_heartbeatVars
-----------------------------------------------------------------------------
(***************************************************************************)
(* Properties.                                                             *)
(***************************************************************************)

(***************************************************************************)
(* A pressed button activates the input within two check intervals and a   *)
(* Tick, and keeps it active, wherever the press meets the interval and    *)
(* the timer's two accesses.                                               *)
(***************************************************************************)
PressNoticed == button_pressed /\ unchanged_for = Settled => stop_active

(***************************************************************************)
(* While pulses come the input does not stay or become active.  With room  *)
(* for the pulse that is lost between the timer's read and its reset this  *)
(* holds; at exactly the minimum frequency it does not, although the       *)
(* comment of heartbeat_min_ calls it the minimum.                         *)
(***************************************************************************)
NoFalseStop == ~button_pressed /\ unchanged_for = Settled => ~stop_active
=============================================================================
