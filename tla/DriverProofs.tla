----------------------------- MODULE DriverProofs -----------------------------
(***************************************************************************)
(* Proofs about the drivers' receivers: the heartbeat of the Sabo stop     *)
(* button, for all periods and pulse frequencies, and the packet parsers   *)
(* of the VESC and the u-blox driver, for all packet lengths and contents  *)
(* and however the bytes are cut into buffers.                             *)
(***************************************************************************)
EXTENDS StopHeartbeat, InputPreemption, VescParser, UbxParser, SequenceTheorems,
        WellFoundedInduction, TLAPS

-----------------------------------------------------------------------------
(* The stop button.                                                        *)

HeartbeatTypeOK ==
    /\ button_pressed \in BOOLEAN
    /\ stop_active \in BOOLEAN
    /\ pulse_in \in Nat
    /\ check_in \in 0..HEARTBEAT_CHECK_INTERVAL
    /\ tick_in \in 0..TickPeriod
    /\ heartbeat_counter \in Nat
    /\ heartbeat_last \in Nat
    /\ current \in Nat \cup {-1}
    /\ unchanged_for \in 0..Settled
    /\ current # -1 => check_in = 0

\* Time since the timer's last reset.
Elapsed == HEARTBEAT_CHECK_INTERVAL - check_in

\* Pulses are at least one unit apart, so the counter cannot wrap around.
CounterInv == heartbeat_counter <= Elapsed + (IF pulse_in = 0 THEN 0 ELSE 1)

\* Nothing is being counted.
Silent == heartbeat_counter = 0 /\ current \in {-1, 0}

\* A pressed button: before the first reset, before the second one, before the
\* next Tick, and after it.
PressInv ==
    button_pressed =>
        \/ unchanged_for + check_in <= HEARTBEAT_CHECK_INTERVAL
        \/ Silent /\ unchanged_for + check_in <= 2 * HEARTBEAT_CHECK_INTERVAL
        \/ Silent /\ heartbeat_last = 0
           /\ unchanged_for + tick_in <= 2 * HEARTBEAT_CHECK_INTERVAL + TickPeriod
        \/ Silent /\ heartbeat_last = 0 /\ stop_active

HeartbeatInv == HeartbeatTypeOK /\ CounterInv /\ PressInv

\* Time that has passed and time that is left.
LEMMA CountDown ==
    ASSUME NEW x \in Nat, NEW y \in Nat, NEW c \in Nat, NEW d, NEW n \in Nat,
           y <= x + 1, d = c - 1, x + c <= n
    PROVE  y + d <= n
OBVIOUS

LEMMA HeartbeatStep == ASSUME HeartbeatInv, [HeartbeatNext]_heartbeatVars PROVE HeartbeatInv'
<1> DEFINE I == HEARTBEAT_CHECK_INTERVAL
           T == TickPeriod
<1> USE DEF timeVars, pulseVars
<1>0. /\ HeartbeatTypeOK /\ I \in Nat \ {0} /\ T \in Nat \ {0} /\ HEARTBEAT_MIN \in Nat \ {0}
      /\ CounterRange \in Nat /\ CounterRange > I + 1 /\ Gaps \subseteq Nat \ {0}
    BY HeartbeatAssumption DEF HeartbeatInv
<1>1. CASE HeartbeatISR
    <2>1. /\ ~button_pressed /\ pulse_in = 0 /\ pulse_in' \in Nat \ {0}
          /\ heartbeat_counter' = (heartbeat_counter + 1) % CounterRange
          /\ UNCHANGED <<button_pressed, check_in, tick_in, unchanged_for, heartbeat_last, current, stop_active>>
        BY <1>0, <1>1 DEF HeartbeatISR
    <2>2. heartbeat_counter <= I - check_in
        BY <1>0, <2>1 DEF HeartbeatInv, HeartbeatTypeOK, CounterInv, Elapsed
    <2>3. heartbeat_counter' = heartbeat_counter + 1
        BY <1>0, <2>1, <2>2 DEF HeartbeatTypeOK
    <2>4. HeartbeatTypeOK'
        BY <1>0, <2>1, <2>3 DEF HeartbeatTypeOK
    <2>5. CounterInv'
        BY <1>0, <2>1, <2>2, <2>3 DEF HeartbeatTypeOK, CounterInv, Elapsed
    <2> QED
        BY <2>1, <2>4, <2>5 DEF HeartbeatInv, PressInv
<1>2. CASE HeartbeatTimerRead
    <2>1. HeartbeatTypeOK'
        BY <1>0, <1>2 DEF HeartbeatTimerRead, HeartbeatTypeOK
    <2>2. CounterInv'
        BY <1>2 DEF HeartbeatTimerRead, HeartbeatInv, CounterInv, Elapsed
    <2>3. Silent => Silent'
        BY <1>2 DEF HeartbeatTimerRead, Silent
    <2>4. PressInv'
        BY <1>2, <2>3 DEF HeartbeatTimerRead, HeartbeatInv, PressInv
    <2> QED
        BY <2>1, <2>2, <2>4 DEF HeartbeatInv
<1>3. CASE HeartbeatTimerReset
    <2>1. /\ current # -1 /\ heartbeat_counter' = 0 /\ heartbeat_last' = current /\ current' = -1
          /\ check_in' = I /\ check_in = 0
          /\ UNCHANGED <<button_pressed, pulse_in, tick_in, unchanged_for, stop_active>>
        BY <1>0, <1>3 DEF HeartbeatTimerReset, CounterAfterReset, HeartbeatTypeOK
    <2>2. HeartbeatTypeOK'
        BY <1>0, <2>1 DEF HeartbeatTypeOK
    <2>3. CounterInv'
        BY <1>0, <2>1 DEF CounterInv, Elapsed
    <2>4. Silent' /\ (Silent => heartbeat_last' = 0)
        BY <2>1 DEF Silent
    <2>5. PressInv'
        <3> SUFFICES ASSUME button_pressed PROVE PressInv'
            BY <2>1 DEF PressInv
        <3>1. CASE unchanged_for + check_in <= I
            <4>1. unchanged_for' + check_in' <= 2 * I
                BY <1>0, <2>1, <3>1 DEF HeartbeatTypeOK
            <4> QED
                BY <2>4, <4>1 DEF PressInv
        <3>2. CASE Silent /\ unchanged_for + check_in <= 2 * I
            <4>1. unchanged_for' + tick_in' <= 2 * I + T
                BY <1>0, <2>1, <3>2 DEF HeartbeatTypeOK
            <4> QED
                BY <2>4, <3>2, <4>1 DEF PressInv
        <3>3. CASE Silent /\ heartbeat_last = 0 /\ unchanged_for + tick_in <= 2 * I + T
            BY <2>1, <2>4, <3>3 DEF PressInv
        <3>4. CASE Silent /\ heartbeat_last = 0 /\ stop_active
            BY <2>1, <2>4, <3>4 DEF PressInv
        <3> QED
            BY <3>1, <3>2, <3>3, <3>4 DEF HeartbeatInv, PressInv
    <2> QED
        BY <2>2, <2>3, <2>5 DEF HeartbeatInv
<1>4. CASE Tick
    <2>1. /\ stop_active' = (heartbeat_last < HEARTBEAT_MIN) /\ tick_in' = T
          /\ UNCHANGED <<button_pressed, pulse_in, check_in, unchanged_for>>
          /\ UNCHANGED <<heartbeat_counter, heartbeat_last, current>>
        BY <1>4 DEF Tick, GetSensorState
    <2>2. HeartbeatTypeOK'
        BY <1>0, <2>1 DEF HeartbeatTypeOK
    <2>3. CounterInv'
        BY <2>1 DEF HeartbeatInv, CounterInv, Elapsed
    <2>4. (Silent => Silent') /\ (heartbeat_last = 0 => stop_active')
        <3>1. heartbeat_last = 0 => heartbeat_last < HEARTBEAT_MIN
            BY <1>0
        <3> QED
            BY <2>1, <3>1 DEF Silent
    <2>5. PressInv'
        BY <2>1, <2>4 DEF HeartbeatInv, PressInv
    <2> QED
        BY <2>2, <2>3, <2>5 DEF HeartbeatInv
<1>5. CASE ButtonMoves
    <2>1. /\ button_pressed' = ~button_pressed /\ unchanged_for' = 0
          /\ pulse_in' \in Nat /\ (pulse_in' = 0 => pulse_in = 0)
          /\ UNCHANGED <<check_in, tick_in, heartbeat_counter, heartbeat_last, current, stop_active>>
        BY <1>0, <1>5 DEF ButtonMoves, HeartbeatTypeOK
    <2>2. HeartbeatTypeOK'
        BY <1>0, <2>1 DEF HeartbeatTypeOK, Settled
    <2>3. CounterInv'
        BY <1>0, <2>1 DEF HeartbeatInv, HeartbeatTypeOK, CounterInv, Elapsed
    <2>4. unchanged_for' + check_in' <= I
        BY <1>0, <2>1 DEF HeartbeatTypeOK
    <2> QED
        BY <2>2, <2>3, <2>4 DEF HeartbeatInv, PressInv
<1>6. CASE TimePasses
    <2>1. /\ check_in > 0 /\ tick_in > 0 /\ (button_pressed \/ pulse_in > 0)
          /\ check_in' = check_in - 1 /\ tick_in' = tick_in - 1
          /\ pulse_in' = IF button_pressed THEN pulse_in ELSE pulse_in - 1
          /\ unchanged_for' = IF unchanged_for < Settled THEN unchanged_for + 1 ELSE Settled
          /\ UNCHANGED <<button_pressed, heartbeat_counter, heartbeat_last, current, stop_active>>
        BY <1>6 DEF TimePasses
    <2>2. /\ unchanged_for \in Nat /\ unchanged_for' \in 0..Settled
          /\ unchanged_for' <= unchanged_for + 1 /\ unchanged_for' \in Nat
        BY <1>0, <2>1 DEF HeartbeatTypeOK, Settled
    <2>3. pulse_in' \in Nat
        BY <1>0, <2>1 DEF HeartbeatTypeOK
    <2>4. HeartbeatTypeOK'
        BY <1>0, <2>1, <2>2, <2>3 DEF HeartbeatTypeOK
    <2>5. CounterInv'
        BY <1>0, <2>1 DEF HeartbeatInv, HeartbeatTypeOK, CounterInv, Elapsed
    <2>6. /\ unchanged_for + check_in <= I => unchanged_for' + check_in' <= I
          /\ unchanged_for + check_in <= 2 * I => unchanged_for' + check_in' <= 2 * I
          /\ unchanged_for + tick_in <= 2 * I + T => unchanged_for' + tick_in' <= 2 * I + T
        <3>1. check_in \in Nat /\ check_in' = check_in - 1 /\ tick_in \in Nat /\ tick_in' = tick_in - 1
            BY <1>0, <2>1 DEF HeartbeatTypeOK
        <3>2. unchanged_for \in Nat /\ unchanged_for' \in Nat /\ unchanged_for' <= unchanged_for + 1
            BY <2>2
        <3>3. 2 * I \in Nat /\ 2 * I + T \in Nat /\ I \in Nat
            BY <1>0
        <3>4. ASSUME NEW n \in Nat, unchanged_for + check_in <= n PROVE unchanged_for' + check_in' <= n
            BY ONLY <3>1, <3>2, <3>4, CountDown, ZenonT(60)
        <3>5. ASSUME NEW n \in Nat, unchanged_for + tick_in <= n PROVE unchanged_for' + tick_in' <= n
            BY ONLY <3>1, <3>2, <3>5, CountDown, ZenonT(60)
        <3> QED
            BY <3>3, <3>4, <3>5
    <2>7. Silent => Silent'
        BY <2>1 DEF Silent
    <2>8. PressInv'
        BY <2>1, <2>6, <2>7 DEF HeartbeatInv, PressInv
    <2> QED
        BY <2>4, <2>5, <2>8 DEF HeartbeatInv
<1>7. CASE UNCHANGED heartbeatVars
    BY <1>7 DEF heartbeatVars, HeartbeatInv, HeartbeatTypeOK, CounterInv, Elapsed, PressInv, Silent
<1> QED
    BY <1>1, <1>2, <1>3, <1>4, <1>5, <1>6, <1>7 DEF HeartbeatNext

LEMMA HeartbeatStart == HeartbeatInit => HeartbeatInv
<1> SUFFICES ASSUME HeartbeatInit PROVE HeartbeatInv
    OBVIOUS
<1>1. HeartbeatTypeOK
    <2>1. /\ Settled \in Nat /\ HEARTBEAT_CHECK_INTERVAL \in Nat /\ TickPeriod \in Nat
          /\ Gaps \subseteq Nat
        BY HeartbeatAssumption DEF Settled
    <2>2. pulse_in \in Nat /\ tick_in \in 0..TickPeriod /\ 0 \in 0..Settled
        BY <2>1 DEF HeartbeatInit
    <2>3. check_in \in 0..HEARTBEAT_CHECK_INTERVAL
        BY <2>1 DEF HeartbeatInit
    <2>4. /\ heartbeat_counter \in Nat /\ heartbeat_last \in Nat /\ unchanged_for \in 0..Settled
          /\ current = -1
        BY <2>2 DEF HeartbeatInit
    <2>5. button_pressed \in BOOLEAN /\ stop_active \in BOOLEAN
        BY DEF HeartbeatInit
    <2> QED
        BY <2>2, <2>3, <2>4, <2>5 DEF HeartbeatTypeOK
<1>2. CounterInv
    BY HeartbeatAssumption DEF HeartbeatInit, CounterInv, Elapsed
<1>3. unchanged_for + check_in <= HEARTBEAT_CHECK_INTERVAL
    BY HeartbeatAssumption DEF HeartbeatInit
<1> QED
    BY <1>1, <1>2, <1>3 DEF HeartbeatInv, PressInv

\* The inductive invariant of the stop button's heartbeat.
THEOREM HeartbeatInvariant == HeartbeatSpec => []HeartbeatInv
<1>1. HeartbeatInv /\ [HeartbeatNext]_heartbeatVars => HeartbeatInv'
    BY HeartbeatStep
<1> QED
    BY HeartbeatStart, <1>1, PTL DEF HeartbeatSpec

\* A button that stays pressed for two check intervals and a Tick has stopped the
\* robot, at any frequency of the pulses before and wherever the press meets
\* HeartbeatTimerCallback's read and reset.
THEOREM PressIsNoticed == HeartbeatSpec => []PressNoticed
<1>1. HeartbeatInv => PressNoticed
    <2> SUFFICES ASSUME HeartbeatInv, button_pressed, unchanged_for = Settled PROVE stop_active
        BY DEF PressNoticed
    <2>1. /\ ~(unchanged_for + check_in <= HEARTBEAT_CHECK_INTERVAL)
          /\ ~(unchanged_for + check_in <= 2 * HEARTBEAT_CHECK_INTERVAL)
          /\ ~(unchanged_for + tick_in <= 2 * HEARTBEAT_CHECK_INTERVAL + TickPeriod)
        BY HeartbeatAssumption DEF HeartbeatInv, HeartbeatTypeOK, Settled
    <2> QED
        BY <2>1 DEF HeartbeatInv, PressInv
<1> QED
    BY HeartbeatInvariant, <1>1, PTL

\* With pulses at most G apart: those counted since the reset cover the time
\* since then, and what the timer has read is enough.
PulsesCounted(G) ==
    /\ Elapsed + pulse_in <= (heartbeat_counter + 1) * G
    /\ current # -1 => HEARTBEAT_MIN <= current

\* A button that is not pressed, in the same four stages as PressInv.
SteadyInv(G) ==
    /\ pulse_in <= G
    /\ ~button_pressed =>
        \/ unchanged_for + check_in <= HEARTBEAT_CHECK_INTERVAL
        \/ PulsesCounted(G) /\ unchanged_for + check_in <= 2 * HEARTBEAT_CHECK_INTERVAL
        \/ PulsesCounted(G) /\ HEARTBEAT_MIN <= heartbeat_last
           /\ unchanged_for + tick_in <= 2 * HEARTBEAT_CHECK_INTERVAL + TickPeriod
        \/ PulsesCounted(G) /\ HEARTBEAT_MIN <= heartbeat_last /\ ~stop_active

\* n + 1 gaps that cover an interval of m + 1 gaps: n is not below m.
LEMMA EnoughGaps ==
    ASSUME NEW n \in Nat, NEW m \in Nat, NEW G \in Nat \ {0}, G * (m + 1) <= (n + 1) * G
    PROVE  m <= n
<1>1. SUFFICES ASSUME n < m PROVE FALSE
    OBVIOUS
<1>2. PICK k \in Nat : m = n + 1 + k
    <2>1. m - n - 1 \in Nat /\ m = n + 1 + (m - n - 1)
        BY <1>1
    <2> QED
        BY <2>1
<1>3. G * (m + 1) = (n + 1) * G + G + k * G
    BY <1>2
<1>4. k * G \in Nat /\ (n + 1) * G \in Nat
    OBVIOUS
<1> QED
    BY <1>3, <1>4

LEMMA SteadyStep ==
    ASSUME NEW G \in Nat \ {0}, Gaps \subseteq 1..G,
           G * (HEARTBEAT_MIN + 1) <= HEARTBEAT_CHECK_INTERVAL,
           HeartbeatInv, HeartbeatInv', SteadyInv(G), [HeartbeatNext]_heartbeatVars
    PROVE  SteadyInv(G)'
<1> DEFINE I == HEARTBEAT_CHECK_INTERVAL
           T == TickPeriod
           A == unchanged_for + check_in <= I
           B == unchanged_for + check_in <= 2 * I
           C == unchanged_for + tick_in <= 2 * I + T
           Enough == HEARTBEAT_MIN <= heartbeat_last
<1> USE DEF timeVars, pulseVars
<1>0. /\ HeartbeatTypeOK /\ I \in Nat \ {0} /\ T \in Nat \ {0} /\ HEARTBEAT_MIN \in Nat \ {0}
      /\ CounterRange \in Nat /\ CounterRange > I + 1 /\ CounterInv
    BY HeartbeatAssumption DEF HeartbeatInv
<1>a. SteadyInv(G) <=> /\ pulse_in <= G
                       /\ ~button_pressed => A \/ (PulsesCounted(G) /\ B) \/ (PulsesCounted(G) /\ Enough /\ C)
                                             \/ (PulsesCounted(G) /\ Enough /\ ~stop_active)
    BY DEF SteadyInv
<1>b. SteadyInv(G)' <=> /\ pulse_in' <= G
                        /\ ~button_pressed' => A' \/ (PulsesCounted(G)' /\ B') \/ (PulsesCounted(G)' /\ Enough' /\ C')
                                               \/ (PulsesCounted(G)' /\ Enough' /\ ~stop_active')
    BY DEF SteadyInv
<1>1. CASE HeartbeatISR
    <2>1. /\ ~button_pressed /\ pulse_in = 0 /\ pulse_in' \in 1..G
          /\ heartbeat_counter' = (heartbeat_counter + 1) % CounterRange
          /\ UNCHANGED <<button_pressed, check_in, tick_in, unchanged_for, heartbeat_last, current, stop_active>>
        BY <1>1 DEF HeartbeatISR
    <2>2. heartbeat_counter <= I - check_in
        BY <1>0, <2>1 DEF HeartbeatTypeOK, CounterInv, Elapsed
    <2>3. heartbeat_counter' = heartbeat_counter + 1
        BY <1>0, <2>1, <2>2 DEF HeartbeatTypeOK
    <2>4. PulsesCounted(G) => PulsesCounted(G)'
        <3> SUFFICES ASSUME PulsesCounted(G) PROVE PulsesCounted(G)'
            OBVIOUS
        <3> DEFINE k == (heartbeat_counter + 1) * G
        <3>1. heartbeat_counter \in Nat /\ check_in \in 0..I
            BY <1>0 DEF HeartbeatTypeOK
        <3>2. k \in Nat /\ (heartbeat_counter + 2) * G = k + G
            BY <3>1
        <3>3. Elapsed \in Nat /\ Elapsed + 0 <= k /\ Elapsed' = Elapsed
            BY <1>0, <2>1, <3>1 DEF PulsesCounted, Elapsed
        <3> HIDE DEF k, Elapsed
        <3>4. Elapsed' + pulse_in' <= k + G
            <4>1. \A e \in Nat : \A g \in 1..G : e + 0 <= k => e + g <= k + G
                BY <3>2
            <4> QED
                BY <2>1, <3>3, <4>1, Zenon
        <3>5. (heartbeat_counter' + 1) * G = k + G
            BY <2>3, <3>1, <3>2
        <3> QED
            BY <2>1, <3>4, <3>5 DEF PulsesCounted
    <2>5. A' = A /\ B' = B /\ C' = C /\ Enough' = Enough /\ pulse_in' <= G
        BY <2>1
    <2> HIDE DEF A, B, C, Enough
    <2> QED
        BY <1>a, <1>b, <2>1, <2>4, <2>5
<1>2. CASE HeartbeatTimerRead
    <2>1. /\ check_in = 0 /\ current' = heartbeat_counter
          /\ UNCHANGED <<button_pressed, check_in, tick_in, pulse_in, unchanged_for>>
          /\ UNCHANGED <<heartbeat_counter, heartbeat_last, stop_active>>
        BY <1>2 DEF HeartbeatTimerRead
    <2>2. PulsesCounted(G) => PulsesCounted(G)'
        <3> SUFFICES ASSUME PulsesCounted(G) PROVE PulsesCounted(G)'
            OBVIOUS
        <3>1. heartbeat_counter \in Nat /\ pulse_in \in Nat /\ (heartbeat_counter + 1) * G \in Nat
            BY <1>0 DEF HeartbeatTypeOK
        <3>2. Elapsed + pulse_in <= (heartbeat_counter + 1) * G /\ Elapsed = I /\ Elapsed' = Elapsed
            BY <1>0, <2>1 DEF PulsesCounted, Elapsed
        <3>3. G * (HEARTBEAT_MIN + 1) \in Nat /\ HEARTBEAT_MIN \in Nat
            BY <1>0
        <3>4. G * (HEARTBEAT_MIN + 1) <= (heartbeat_counter + 1) * G
            BY <1>0, <3>1, <3>2, <3>3
        <3>5. HEARTBEAT_MIN <= heartbeat_counter
            BY <3>1, <3>3, <3>4, EnoughGaps
        <3> HIDE DEF Elapsed
        <3> QED
            BY <2>1, <3>2, <3>5 DEF PulsesCounted
    <2>3. A' = A /\ B' = B /\ C' = C /\ Enough' = Enough
        BY <2>1
    <2> HIDE DEF A, B, C, Enough
    <2> QED
        BY <1>a, <1>b, <2>1, <2>2, <2>3
<1>3. CASE HeartbeatTimerReset
    <2>1. /\ current # -1 /\ heartbeat_counter' = 0 /\ heartbeat_last' = current /\ current' = -1
          /\ check_in' = I /\ check_in = 0
          /\ UNCHANGED <<button_pressed, pulse_in, tick_in, unchanged_for, stop_active>>
        BY <1>0, <1>3 DEF HeartbeatTimerReset, CounterAfterReset, HeartbeatTypeOK
    <2>2. PulsesCounted(G)' /\ (PulsesCounted(G) => Enough')
        <3>1. pulse_in \in Nat /\ pulse_in <= G
            BY <1>0 DEF HeartbeatTypeOK, SteadyInv
        <3>2. Elapsed' = 0 /\ (heartbeat_counter' + 1) * G = G /\ pulse_in' = pulse_in
            BY <1>0, <2>1 DEF Elapsed
        <3>3. Elapsed' + pulse_in' <= (heartbeat_counter' + 1) * G
            BY <3>1, <3>2
        <3> HIDE DEF Elapsed
        <3> QED
            BY <2>1, <3>3 DEF PulsesCounted
    <2>3. A => B'
        BY <1>0, <2>1 DEF HeartbeatTypeOK
    <2>4. B => C'
        BY <1>0, <2>1 DEF HeartbeatTypeOK
    <2>5. C' = C
        BY <2>1
    <2> HIDE DEF A, B, C, Enough
    <2> QED
        BY <1>a, <1>b, <2>1, <2>2, <2>3, <2>4, <2>5
<1>4. CASE Tick
    <2>1. /\ stop_active' = (heartbeat_last < HEARTBEAT_MIN)
          /\ UNCHANGED <<button_pressed, pulse_in, check_in, unchanged_for>>
          /\ UNCHANGED <<heartbeat_counter, heartbeat_last, current>>
        BY <1>4 DEF Tick, GetSensorState
    <2>2. Enough => ~(heartbeat_last < HEARTBEAT_MIN)
        BY <1>0 DEF HeartbeatTypeOK
    <2>3. A' = A /\ B' = B /\ Enough' = Enough /\ PulsesCounted(G)' = PulsesCounted(G)
        BY <2>1 DEF PulsesCounted, Elapsed
    <2>4. Enough => ~stop_active'
        BY <2>1, <2>2
    <2> HIDE DEF A, B, C, Enough
    <2> QED
        BY <1>a, <1>b, <2>1, <2>3, <2>4
<1>5. CASE ButtonMoves
    <2>1. /\ button_pressed' = ~button_pressed /\ unchanged_for' = 0 /\ check_in' = check_in
          /\ pulse_in' \in IF button_pressed THEN Gaps ELSE {pulse_in}
        BY <1>5 DEF ButtonMoves
    <2>2. pulse_in' <= G
        BY <2>1 DEF SteadyInv
    <2>3. A'
        BY <1>0, <2>1 DEF HeartbeatTypeOK
    <2> HIDE DEF A, B, C, Enough
    <2> QED
        BY <1>b, <2>2, <2>3
<1>6. CASE TimePasses
    <2>1. /\ check_in > 0 /\ tick_in > 0 /\ (button_pressed \/ pulse_in > 0)
          /\ check_in' = check_in - 1 /\ tick_in' = tick_in - 1
          /\ pulse_in' = IF button_pressed THEN pulse_in ELSE pulse_in - 1
          /\ unchanged_for' = IF unchanged_for < Settled THEN unchanged_for + 1 ELSE Settled
          /\ UNCHANGED <<button_pressed, heartbeat_counter, heartbeat_last, current, stop_active>>
        BY <1>6 DEF TimePasses
    <2>2. unchanged_for \in Nat /\ unchanged_for' \in Nat /\ unchanged_for' <= unchanged_for + 1
        BY <1>0, <2>1 DEF HeartbeatTypeOK, Settled
    <2>3. check_in \in Nat /\ check_in' = check_in - 1 /\ tick_in \in Nat /\ tick_in' = tick_in - 1
        BY <1>0, <2>1 DEF HeartbeatTypeOK
    <2>4. 2 * I \in Nat /\ 2 * I + T \in Nat /\ I \in Nat
        BY <1>0
    <2>5. ASSUME NEW n \in Nat, unchanged_for + check_in <= n PROVE unchanged_for' + check_in' <= n
        BY ONLY <2>2, <2>3, <2>5, CountDown, ZenonT(60)
    <2>6. ASSUME NEW n \in Nat, unchanged_for + tick_in <= n PROVE unchanged_for' + tick_in' <= n
        BY ONLY <2>2, <2>3, <2>6, CountDown, ZenonT(60)
    <2>7. (A => A') /\ (B => B') /\ (C => C')
        BY <2>4, <2>5, <2>6
    <2>8. pulse_in' <= G
        BY <1>0, <2>1 DEF SteadyInv, HeartbeatTypeOK
    <2>9. ~button_pressed /\ PulsesCounted(G) => PulsesCounted(G)'
        <3> SUFFICES ASSUME ~button_pressed, PulsesCounted(G) PROVE PulsesCounted(G)'
            OBVIOUS
        <3>1. Elapsed' + pulse_in' = Elapsed + pulse_in
            BY <1>0, <2>1 DEF Elapsed, HeartbeatTypeOK
        <3> HIDE DEF Elapsed
        <3> QED
            BY <2>1, <3>1 DEF PulsesCounted
    <2>10. Enough' = Enough
        BY <2>1
    <2> HIDE DEF A, B, C, Enough
    <2> QED
        BY <1>a, <1>b, <2>1, <2>7, <2>8, <2>9, <2>10
<1>7. CASE UNCHANGED heartbeatVars
    BY <1>7 DEF heartbeatVars, SteadyInv, PulsesCounted, Elapsed
<1> QED
    BY <1>1, <1>2, <1>3, <1>4, <1>5, <1>6, <1>7 DEF HeartbeatNext

\* No false stop at any pulse frequency for which one pulse more than the minimum
\* fits into a check interval: the one that may be lost between the read and the
\* reset of HeartbeatTimerCallback.
THEOREM NoFalseStopAbove ==
    ASSUME NEW CONSTANT G \in Nat \ {0}, Gaps \subseteq 1..G,
           G * (HEARTBEAT_MIN + 1) <= HEARTBEAT_CHECK_INTERVAL
    PROVE  HeartbeatSpec => []NoFalseStop
<1>1. HeartbeatInit => SteadyInv(G)
    <2> SUFFICES ASSUME HeartbeatInit PROVE SteadyInv(G)
        OBVIOUS
    <2>1. unchanged_for + check_in <= HEARTBEAT_CHECK_INTERVAL
        BY HeartbeatAssumption DEF HeartbeatInit
    <2>2. pulse_in <= G
        BY DEF HeartbeatInit
    <2> QED
        BY <2>1, <2>2 DEF SteadyInv
<1>2. HeartbeatInv /\ HeartbeatInv' /\ SteadyInv(G) /\ [HeartbeatNext]_heartbeatVars => SteadyInv(G)'
    BY SteadyStep
<1>3. HeartbeatInv /\ SteadyInv(G) => NoFalseStop
    <2> SUFFICES ASSUME HeartbeatInv, SteadyInv(G), ~button_pressed, unchanged_for = Settled
                 PROVE  ~stop_active
        BY DEF NoFalseStop
    <2>1. /\ ~(unchanged_for + check_in <= HEARTBEAT_CHECK_INTERVAL)
          /\ ~(unchanged_for + check_in <= 2 * HEARTBEAT_CHECK_INTERVAL)
          /\ ~(unchanged_for + tick_in <= 2 * HEARTBEAT_CHECK_INTERVAL + TickPeriod)
        BY HeartbeatAssumption DEF HeartbeatInv, HeartbeatTypeOK, Settled
    <2> QED
        BY <2>1 DEF SteadyInv
<1> QED
    BY HeartbeatInvariant, <1>1, <1>2, <1>3, PTL DEF HeartbeatSpec

-----------------------------------------------------------------------------
(* The packet stream.  An intact stream is a chain: from any byte on, the  *)
(* indices count up to the packet's end and start again at 0.  The chain   *)
(* is stated of all pairs of positions, the byte the peer sends next being *)
(* the last position, so that taking bytes from the front preserves it.    *)

\* The position in its packet of the i-th byte to come, and that packet's end.
IndexOf(b, p, i) == IF i <= Len(b) THEN b[i].index ELSE p.next
EndOf(b, p, k, i) == IF i <= Len(b) THEN b[i].end ELSE p.length + k

Chain(b, p, k) ==
    \A i \in 1..(Len(b) + 1) : \A j \in i..(Len(b) + 1) :
        /\ IndexOf(b, p, i) + (j - i) <= EndOf(b, p, k, i) =>
              /\ IndexOf(b, p, j) = IndexOf(b, p, i) + (j - i)
              /\ EndOf(b, p, k, j) = EndOf(b, p, k, i)
        /\ IndexOf(b, p, i) + (j - i) = EndOf(b, p, k, i) + 1 =>
              IndexOf(b, p, j) = 0

\* A stream of bytes of the set B, made of packets with k bytes after the first
\* and around the payload, whose lengths are in L.
InStream(b, p, B, k, L) ==
    /\ b \in Seq(B)
    /\ p \in [length : L, next : Nat]
    /\ p.next <= p.length + k
    /\ Chain(b, p, k)

ByteSet == [value : Int, index : Nat, end : Nat]

\* The peer sends a byte: the chain grows by one, its first bytes stay.
LEMMA StreamSend ==
    ASSUME NEW B \in SUBSET ByteSet, NEW k \in Nat, NEW L \in SUBSET Nat, NEW b, NEW p, NEW q,
           NEW x \in B, InStream(b, p, B, k, L),
           x.index = p.next, x.end = p.length + k,
           q \in IF p.next = p.length + k THEN [length : L, next : {0}]
                                         ELSE {[p EXCEPT !.next = @ + 1]}
    PROVE  /\ InStream(Append(b, x), q, B, k, L)
           /\ IndexOf(Append(b, x), q, 1) = IndexOf(b, p, 1)
           /\ EndOf(Append(b, x), q, k, 1) = EndOf(b, p, k, 1)
<1> DEFINE c == Append(b, x)
           n == Len(b)
<1>1. /\ c \in Seq(B)
      /\ n \in Nat
      /\ Len(c) = n + 1
      /\ \A i \in 1..n : c[i] = b[i] /\ b[i] \in B
      /\ c[n + 1] = x
  BY DEF InStream
<1>2. /\ x.index \in Nat /\ x.end \in Nat /\ p.next \in Nat /\ p.length \in Nat
      /\ \A i \in 1..n : b[i].index \in Nat /\ b[i].end \in Nat
  BY <1>1 DEF InStream, ByteSet
<1>3. /\ q \in [length : L, next : Nat]
      /\ q.next <= q.length + k
      /\ p.next # p.length + k => q.next = p.next + 1 /\ q.length = p.length
      /\ p.next = p.length + k => q.next = 0
  <2>1. CASE p.next = p.length + k
    BY <2>1, <1>2 DEF InStream
  <2>2. CASE p.next # p.length + k
    BY <2>2, <1>2 DEF InStream
  <2> QED BY <2>1, <2>2
<1>4. \A i \in 1..(n + 1) : /\ IndexOf(c, q, i) = IndexOf(b, p, i)
                            /\ EndOf(c, q, k, i) = EndOf(b, p, k, i)
                            /\ IndexOf(b, p, i) \in Nat
                            /\ EndOf(b, p, k, i) \in Nat
  <2> SUFFICES ASSUME NEW i \in 1..(n + 1)
               PROVE  /\ IndexOf(c, q, i) = IndexOf(b, p, i)
                      /\ EndOf(c, q, k, i) = EndOf(b, p, k, i)
                      /\ IndexOf(b, p, i) \in Nat
                      /\ EndOf(b, p, k, i) \in Nat
    OBVIOUS
  <2>1. i <= Len(c) /\ (i <= n \/ i = n + 1) /\ ~(n + 1 <= n)
    BY <1>1
  <2>2. CASE i <= n
    <3>1. i \in 1..n
      BY <2>2, <1>1
    <3> QED BY <2>2, <2>1, <3>1, <1>1, <1>2 DEF IndexOf, EndOf
  <2>3. CASE i = n + 1
    BY <2>3, <2>1, <1>1, <1>2 DEF IndexOf, EndOf
  <2> QED BY <2>1, <2>2, <2>3
<1>5. IndexOf(c, q, n + 2) = q.next /\ EndOf(c, q, k, n + 2) = q.length + k
  <2>1. ~(n + 2 <= Len(c))
    BY <1>1
  <2> QED BY <2>1 DEF IndexOf, EndOf
<1>6. IndexOf(b, p, n + 1) = p.next /\ EndOf(b, p, k, n + 1) = p.length + k
  <2>1. ~(n + 1 <= n)
    BY <1>1
  <2> QED BY <2>1 DEF IndexOf, EndOf
<1> HIDE DEF c, n
<1>7. ASSUME NEW i \in 1..(n + 2), NEW j \in i..(n + 2)
      PROVE  /\ IndexOf(c, q, i) + (j - i) <= EndOf(c, q, k, i) =>
                    /\ IndexOf(c, q, j) = IndexOf(c, q, i) + (j - i)
                    /\ EndOf(c, q, k, j) = EndOf(c, q, k, i)
             /\ IndexOf(c, q, i) + (j - i) = EndOf(c, q, k, i) + 1 =>
                    IndexOf(c, q, j) = 0
  <2>0. \A l \in 1..(n + 1) : \A m \in l..(n + 1) :
            /\ IndexOf(b, p, l) + (m - l) <= EndOf(b, p, k, l) =>
                  /\ IndexOf(b, p, m) = IndexOf(b, p, l) + (m - l)
                  /\ EndOf(b, p, k, m) = EndOf(b, p, k, l)
            /\ IndexOf(b, p, l) + (m - l) = EndOf(b, p, k, l) + 1 =>
                  IndexOf(b, p, m) = 0
    BY DEF InStream, Chain, n
  <2>1. CASE j <= n + 1
    <3>1. i \in 1..(n + 1) /\ j \in 1..(n + 1) /\ j \in i..(n + 1)
      BY <2>1, <1>1
    <3> QED BY <2>0, <3>1, <1>4
  <2>2. CASE i = n + 2
    <3>1. j = i /\ j - i = 0
      BY <2>2, <1>1
    <3>2. q.next \in Nat /\ q.length + k \in Nat
      BY <1>3
    <3> QED BY <2>2, <3>1, <3>2, <1>5, <1>3
  <2>3. CASE i <= n + 1 /\ j = n + 2
    <3>1. i \in 1..(n + 1) /\ n + 1 \in i..(n + 1) /\ j - i = ((n + 1) - i) + 1
          /\ (n + 1) - i \in Nat
      BY <2>3, <1>1
    <3>2. /\ IndexOf(b, p, i) + ((n + 1) - i) <= EndOf(b, p, k, i) =>
                /\ p.next = IndexOf(b, p, i) + ((n + 1) - i)
                /\ p.length + k = EndOf(b, p, k, i)
      BY <2>0, <3>1, <1>6
    <3> DEFINE u == IndexOf(b, p, i)
               e == EndOf(b, p, k, i)
               d == (n + 1) - i
    <3>3. u \in Nat /\ e \in Nat /\ d \in Nat
      BY <1>4, <3>1
    <3>4. u + d <= e => p.next = u + d /\ p.length + k = e
      BY <3>2
    <3>5. IndexOf(c, q, i) = u /\ EndOf(c, q, k, i) = e
          /\ IndexOf(c, q, j) = q.next /\ EndOf(c, q, k, j) = q.length + k
      BY <1>4, <1>5, <2>3, <3>1
    <3> HIDE DEF u, e, d
    <3>6. u + (d + 1) <= e => q.next = u + (d + 1) /\ q.length + k = e
      BY <3>3, <3>4, <1>2, <1>3
    <3>7. u + (d + 1) = e + 1 => q.next = 0
      BY <3>3, <3>4, <1>2, <1>3
    <3>8. j - i = d + 1
      BY <3>1 DEF d
    <3> QED BY <3>5, <3>6, <3>7, <3>8
  <2> QED BY <2>1, <2>2, <2>3, <1>1
<1>8. Len(c) + 1 = n + 2 /\ 1 \in 1..(n + 1)
  BY <1>1
<1>9. Chain(c, q, k)
  BY <1>7, <1>8 DEF Chain
<1> QED BY <1>1, <1>3, <1>4, <1>8, <1>9 DEF InStream, c

\* The parser takes n bytes: the chain without its first n positions.
LEMMA StreamAdvance ==
    ASSUME NEW B \in SUBSET ByteSet, NEW k \in Nat, NEW L \in SUBSET Nat, NEW b, NEW p,
           InStream(b, p, B, k, L), NEW n \in Nat, n <= Len(b)
    PROVE  LET c == SubSeq(b, n + 1, Len(b)) IN
           /\ InStream(c, p, B, k, L)
           /\ Len(c) = Len(b) - n
           /\ IndexOf(c, p, 1) = IndexOf(b, p, n + 1)
           /\ EndOf(c, p, k, 1) = EndOf(b, p, k, n + 1)
<1> DEFINE c == SubSeq(b, n + 1, Len(b))
           m == Len(b) - n
<1>1. Len(b) \in Nat /\ n \in Nat /\ m \in Nat /\ Len(b) = n + m
      /\ \A i \in 1..Len(b) : b[i] \in B
  BY DEF InStream
<1>2. /\ c \in Seq(B)
      /\ Len(c) = IF n + 1 <= Len(b) THEN Len(b) - (n + 1) + 1 ELSE 0
      /\ \A i \in 1..(Len(b) - (n + 1) + 1) : c[i] = b[(n + 1) + i - 1]
  <2>1. \A i \in (n + 1)..Len(b) : b[i] \in B
    BY <1>1
  <2>2. n + 1 \in Int /\ Len(b) \in Int
    BY <1>1
  <2> QED BY ONLY <2>1, <2>2, SubSeqProperties
<1>3. Len(c) = m /\ \A i \in 1..m : c[i] = b[n + i]
  <2>1. Len(c) = m
    <3>1. \A l, r, x \in Nat : l = r + x => (IF r + 1 <= l THEN l - (r + 1) + 1 ELSE 0) = x
      OBVIOUS
    <3> HIDE DEF c, m
    <3> QED BY ONLY <3>1, <1>1, <1>2, Zenon
  <2>2. ASSUME NEW i \in 1..m PROVE c[i] = b[n + i]
    <3>1. i \in 1..(Len(b) - (n + 1) + 1) /\ (n + 1) + i - 1 = n + i
      BY <1>1
    <3> QED BY <1>2, <3>1
  <2> QED BY <2>1, <2>2
<1> HIDE DEF c, m
<1>4. ASSUME NEW i \in 1..(m + 1)
      PROVE  IndexOf(c, p, i) = IndexOf(b, p, n + i) /\ EndOf(c, p, k, i) = EndOf(b, p, k, n + i)
  <2>1. i <= m <=> n + i <= Len(b)
    BY <1>1
  <2>2. i <= m => i \in 1..m
    BY <1>1
  <2> QED BY <2>1, <2>2, <1>3 DEF IndexOf, EndOf
<1>5. Chain(c, p, k)
  <2> SUFFICES ASSUME NEW i \in 1..(m + 1), NEW j \in i..(m + 1)
               PROVE  /\ IndexOf(c, p, i) + (j - i) <= EndOf(c, p, k, i) =>
                            /\ IndexOf(c, p, j) = IndexOf(c, p, i) + (j - i)
                            /\ EndOf(c, p, k, j) = EndOf(c, p, k, i)
                      /\ IndexOf(c, p, i) + (j - i) = EndOf(c, p, k, i) + 1 =>
                            IndexOf(c, p, j) = 0
    BY <1>3 DEF Chain
  <2>1. /\ n + i \in 1..(Len(b) + 1) /\ n + j \in (n + i)..(Len(b) + 1)
        /\ (n + j) - (n + i) = j - i /\ j \in 1..(m + 1)
    BY <1>1
  <2> QED BY <2>1, <1>4 DEF InStream, Chain
<1>6. 1 \in 1..(m + 1)
  BY <1>1
<1>7. InStream(c, p, B, k, L) /\ Len(c) = m
      /\ IndexOf(c, p, 1) = IndexOf(b, p, n + 1) /\ EndOf(c, p, k, 1) = EndOf(b, p, k, n + 1)
  BY <1>2, <1>3, <1>4, <1>5, <1>6 DEF InStream
<1> QED BY <1>7 DEF c, m

\* The first n bytes count on from f in a packet with end e.
Counts(b, n, f, e) == \A i \in 1..n : b[i].index = f + (i - 1) /\ b[i].end = e

\* The first n bytes belong to the packet that comes first.
Within(b, p, k, n) ==
    /\ n \in Nat /\ n <= Len(b)
    /\ IndexOf(b, p, 1) \in Nat /\ EndOf(b, p, k, 1) \in Nat
    /\ IndexOf(b, p, 1) + n <= EndOf(b, p, k, 1) + 1

\* They count up in it, and what follows them is its next byte or a new packet.
CountedUpTo(b, p, k, n) ==
    /\ Counts(b, n, IndexOf(b, p, 1), EndOf(b, p, k, 1))
    /\ IndexOf(b, p, 1) + n <= EndOf(b, p, k, 1) =>
          /\ IndexOf(b, p, n + 1) = IndexOf(b, p, 1) + n
          /\ EndOf(b, p, k, n + 1) = EndOf(b, p, k, 1)
    /\ IndexOf(b, p, 1) + n = EndOf(b, p, k, 1) + 1 => IndexOf(b, p, n + 1) = 0

LEMMA StreamRun ==
    ASSUME NEW B \in SUBSET ByteSet, NEW k \in Nat, NEW L \in SUBSET Nat, NEW b, NEW p, NEW n,
           InStream(b, p, B, k, L), Within(b, p, k, n)
    PROVE  CountedUpTo(b, p, k, n)
<1> USE DEF Within
<1> DEFINE f == IndexOf(b, p, 1)
           e == EndOf(b, p, k, 1)
<1>1. Len(b) \in Nat /\ n \in Nat
  BY DEF InStream
<1>2. 1 \in 1..(Len(b) + 1) /\ n + 1 \in 1..(Len(b) + 1) /\ (n + 1) - 1 = n
  BY <1>1
<1>3. ASSUME NEW i \in 1..n PROVE b[i].index = f + (i - 1) /\ b[i].end = e
  <2>1. i \in 1..(Len(b) + 1) /\ i <= Len(b)
    BY <1>1
  <2>2. f + (i - 1) <= e
    <3> HIDE DEF f, e
    <3>1. f \in Nat /\ e \in Nat /\ f + n <= e + 1
      BY DEF f, e
    <3> QED BY <1>1, <3>1
  <2> QED BY <2>1, <2>2, <1>2 DEF InStream, Chain, IndexOf, EndOf
<1>4. /\ f + n <= e => IndexOf(b, p, n + 1) = f + n /\ EndOf(b, p, k, n + 1) = e
      /\ f + n = e + 1 => IndexOf(b, p, n + 1) = 0
  BY <1>2 DEF InStream, Chain
<1> QED BY <1>3, <1>4 DEF Counts, CountedUpTo

-----------------------------------------------------------------------------
(* The parser of the VESC driver.                                          *)

\* A byte of an intact packet.
VescBytes ==
    {x \in [value : 0..(ByteRange - 1), index : Nat, end : Nat] :
        /\ x.index <= x.end
        /\ x.end - 4 \in Lengths
        /\ x.index = 0 => x.value = HEADER
        /\ x.index = 1 => x.value = x.end - 4}

\* As long as no packet was cut short the parser knows its place in the stream:
\* the next byte is the one that its fill stands for, in the packet whose length
\* it has read.
VescSound ==
    /\ contents \in ContentSets
    /\ InStream(buffer, packet, VescBytes, 4, Lengths)
    /\ busy \in BOOLEAN
    /\ busy => buffer # << >>
    /\ working_buffer_fill \in Nat
    /\ IndexOf(buffer, packet, 1) = working_buffer_fill
    /\ working_buffer_fill >= 1 => prefix = TRUE
    /\ working_buffer_fill >= 2 => length = EndOf(buffer, packet, 4, 1) - 4
    /\ lost = FALSE

VescPlace == truncated \/ VescSound

LEMMA VescTypes ==
    /\ VescBytes \in SUBSET ByteSet
    /\ Lengths \in SUBSET Nat
    /\ \A l \in Lengths : l \in Nat /\ l >= 1 /\ l <= ByteRange - 1
    /\ 4 \in Nat
    /\ \A x \in VescBytes : x.index \in Nat /\ x.end \in Nat /\ x.value \in Nat /\ x.end >= 5
<1>1. ByteRange \in Nat
  BY StreamAssumption
<1>2. Lengths \in SUBSET Nat /\ \A l \in Lengths : l \in Nat /\ l >= 1 /\ l <= ByteRange - 1
  BY <1>1, VescAssumption
<1>3. ASSUME NEW x \in VescBytes
      PROVE  x.index \in Nat /\ x.end \in Nat /\ x.value \in Nat /\ x.end >= 5 /\ x \in ByteSet
  <2>1. x \in [value : 0..(ByteRange - 1), index : Nat, end : Nat] /\ x.end - 4 \in Lengths
    BY DEF VescBytes
  <2>2. x.index \in Nat /\ x.end \in Nat /\ x.value \in Nat /\ x \in ByteSet
    BY <2>1, <1>1 DEF ByteSet
  <2>3. x.end - 4 >= 1
    BY <2>1, <1>2
  <2> QED BY <2>2, <2>3
<1> QED BY <1>2, <1>3

\* What the first byte to come is, when there is one.
LEMMA VescFirst ==
    ASSUME VescSound, busy
    PROVE  /\ Len(buffer) \in Nat /\ Len(buffer) >= 1
           /\ buffer[1] \in VescBytes
           /\ buffer[1].index = working_buffer_fill
           /\ buffer[1].end = EndOf(buffer, packet, 4, 1)
           /\ IndexOf(buffer, packet, 1) \in Nat
           /\ EndOf(buffer, packet, 4, 1) \in Nat
           /\ EndOf(buffer, packet, 4, 1) >= 5
           /\ working_buffer_fill <= EndOf(buffer, packet, 4, 1)
           /\ EndOf(buffer, packet, 4, 1) - 4 \in Lengths
<1>1. buffer \in Seq(VescBytes) /\ buffer # << >>
  BY DEF VescSound, InStream
<1>2. Len(buffer) \in Nat /\ Len(buffer) >= 1 /\ buffer[1] \in VescBytes
  BY <1>1
<1>3. /\ IndexOf(buffer, packet, 1) = buffer[1].index
      /\ EndOf(buffer, packet, 4, 1) = buffer[1].end
  BY <1>2 DEF IndexOf, EndOf
<1>4. /\ buffer[1].index \in Nat /\ buffer[1].end \in Nat /\ buffer[1].end >= 5
  BY <1>2, VescTypes
<1>5. buffer[1].index <= buffer[1].end /\ buffer[1].end - 4 \in Lengths
  BY <1>2 DEF VescBytes
<1> QED BY <1>2, <1>3, <1>4, <1>5 DEF VescSound

\* A pass that takes n bytes of the packet that comes first.
LEMMA VescTakes ==
    ASSUME VescSound, busy, NEW n \in 1..Len(buffer), Advance(n),
           working_buffer_fill + n <= EndOf(buffer, packet, 4, 1) + 1
    PROVE  /\ contents' \in ContentSets
           /\ InStream(buffer', packet', VescBytes, 4, Lengths)
           /\ busy' \in BOOLEAN
           /\ busy' => buffer' # << >>
           /\ working_buffer_fill + n <= EndOf(buffer, packet, 4, 1) =>
                 /\ IndexOf(buffer', packet', 1) = working_buffer_fill + n
                 /\ EndOf(buffer', packet', 4, 1) = EndOf(buffer, packet, 4, 1)
           /\ working_buffer_fill + n = EndOf(buffer, packet, 4, 1) + 1 =>
                 IndexOf(buffer', packet', 1) = 0
           /\ Counts(buffer, n, working_buffer_fill, EndOf(buffer, packet, 4, 1))
<1> DEFINE f == working_buffer_fill
           e == EndOf(buffer, packet, 4, 1)
           c == SubSeq(buffer, n + 1, Len(buffer))
<1>1. n \in 0..Len(buffer) /\ n \in Nat /\ Len(buffer) \in Nat
  BY VescFirst
<1>2. InStream(buffer, packet, VescBytes, 4, Lengths)
  BY DEF VescSound
<1>3. f \in Nat /\ e \in Nat /\ f = IndexOf(buffer, packet, 1)
  BY VescFirst DEF VescSound
<1>4. buffer' = c /\ busy' = (n < Len(buffer)) /\ packet' = packet /\ contents' = contents
  BY DEF Advance, peerVars
<1>5. /\ InStream(c, packet, VescBytes, 4, Lengths)
      /\ Len(c) = Len(buffer) - n
      /\ IndexOf(c, packet, 1) = IndexOf(buffer, packet, n + 1)
      /\ EndOf(c, packet, 4, 1) = EndOf(buffer, packet, 4, n + 1)
  BY <1>1, <1>2, VescTypes, StreamAdvance
<1>6. /\ Counts(buffer, n, f, e)
      /\ f + n <= e => IndexOf(buffer, packet, n + 1) = f + n /\ EndOf(buffer, packet, 4, n + 1) = e
      /\ f + n = e + 1 => IndexOf(buffer, packet, n + 1) = 0
  <2>1. Within(buffer, packet, 4, n)
    BY <1>1, <1>3 DEF Within
  <2>2. CountedUpTo(buffer, packet, 4, n)
    BY ONLY <1>2, <2>1, VescTypes, StreamRun
  <2> QED BY <1>3, <2>2 DEF CountedUpTo
<1>7. busy' => buffer' # << >>
  <2> SUFFICES ASSUME n < Len(buffer) PROVE c # << >>
    BY <1>4
  <2>1. Len(c) > 0
    BY <1>1, <1>5
  <2> HIDE DEF c
  <2> QED BY <2>1
<1>8. contents' \in ContentSets /\ busy' \in BOOLEAN
  BY <1>4 DEF VescSound
<1> HIDE DEF c
<1> QED BY <1>4, <1>5, <1>6, <1>7, <1>8

\* A set of positions has a first one.
LEMMA LeastPosition ==
    ASSUME NEW S \in SUBSET Nat, S # {}
    PROVE  \E i \in S : \A j \in S : i <= j
<1> DEFINE R == OpToRel(<, Nat)
<1>1. IsWellFoundedOn(R, Nat)
  BY NatLessThanWellFounded, Zenon
<1>2. \A x, y \in Nat : <<y, x>> \in R <=> y < x
  BY DEF OpToRel
<1> HIDE DEF R
<1>3. PICK i \in S : \A j \in S : ~(<<j, i>> \in R)
  BY <1>1, WFMin
<1>4. i \in Nat /\ \A j \in S : j \in Nat /\ ~(j < i)
  BY <1>2, <1>3
<1> QED BY <1>4

\* When the first byte is the one looked for, the search stops there.
LEMMA FirstIsFirst ==
    ASSUME NEW v, Len(buffer) \in Nat, Len(buffer) >= 1, buffer[1].value = v
    PROVE  FirstOf(v) = 1
<1> DEFINE found == {i \in 1..Len(buffer) : buffer[i].value = v}
<1>1. 1 \in found /\ \A j \in found : j \in Nat /\ 1 <= j
  OBVIOUS
<1>2. \A i \in found : (\A j \in found : i <= j) => i = 1
  BY <1>1
<1>3. FirstOf(v) = CHOOSE i \in found : \A j \in found : i <= j
  BY <1>1, Zenon DEF FirstOf
<1> HIDE DEF found
<1>4. \E i \in found : \A j \in found : i <= j
  BY <1>1
<1>5. LET w == CHOOSE i \in found : \A j \in found : i <= j IN
      w \in found /\ \A j \in found : w <= j
  BY <1>4
<1> QED BY <1>2, <1>3, <1>5

LEMMA VescSends ==
    ASSUME VescSound, EscSends
    PROVE  VescSound'
<1> DEFINE last == packet.length + 4
<1>1. InStream(buffer, packet, VescBytes, 4, Lengths)
  BY DEF VescSound
<1>2. packet \in [length : Lengths, next : Nat] /\ packet.next <= last
  BY <1>1 DEF InStream
<1>3. packet.length \in Lengths /\ packet.length \in Nat /\ packet.length >= 1
      /\ packet.length <= ByteRange - 1 /\ packet.next \in Nat
  BY <1>2, VescTypes
<1>4. ByteRange \in Nat /\ ByteRange > 5
  BY StreamAssumption
<1>5. PICK v \in VescByteValues :
          buffer' = Append(buffer, [value |-> v, index |-> packet.next, end |-> last])
  BY DEF EscSends, SendByte
<1> DEFINE x == [value |-> v, index |-> packet.next, end |-> last]
<1>6. /\ v \in 0..(ByteRange - 1)
      /\ packet.next = 0 => v = HEADER
      /\ packet.next = 1 => v = packet.length
  <2>1. CASE packet.next = 0
    <3>0. packet.next # 1 /\ packet.next # packet.length + 4
      BY <2>1, <1>3
    <3>1. v = HEADER
      BY <2>1, <3>0 DEF VescByteValues
    <3> QED BY <2>1, <3>0, <3>1, <1>4 DEF HEADER
  <2>2. CASE packet.next = 1
    <3>1. packet.next # 0 /\ packet.next # packet.length + 4
      BY <2>2, <1>3
    <3>2. v = packet.length
      BY <2>2, <3>1 DEF VescByteValues
    <3> QED BY <2>2, <3>1, <3>2, <1>3, <1>4
  <2>3. CASE packet.next # 0 /\ packet.next # 1 /\ packet.next = packet.length + 4
    <3>1. v = TRAILER
      BY <2>3 DEF VescByteValues
    <3> QED BY <2>3, <3>1, <1>4 DEF TRAILER
  <2>4. CASE packet.next # 0 /\ packet.next # 1 /\ packet.next # packet.length + 4
    <3>1. v \in contents
      BY <2>4 DEF VescByteValues
    <3>2. contents \subseteq 0..(ByteRange - 1)
      BY StreamAssumption DEF VescSound
    <3> QED BY <2>4, <3>1, <3>2
  <2> QED BY <2>1, <2>2, <2>3, <2>4
<1>7. x \in VescBytes
  <2>1. last \in Nat /\ last - 4 = packet.length
    BY <1>3
  <2>2. x \in [value : 0..(ByteRange - 1), index : Nat, end : Nat]
    BY <1>3, <1>6, <2>1
  <2> QED BY <1>2, <1>3, <1>6, <2>1, <2>2 DEF VescBytes
<1>8. packet' \in IF packet.next = last THEN [length : Lengths, next : {0}]
                                        ELSE {[packet EXCEPT !.next = @ + 1]}
  BY DEF EscSends, SendByte
<1>9. x.index = packet.next /\ x.end = packet.length + 4
  OBVIOUS
<1> HIDE DEF x
<1>10. /\ InStream(Append(buffer, x), packet', VescBytes, 4, Lengths)
       /\ IndexOf(Append(buffer, x), packet', 1) = IndexOf(buffer, packet, 1)
       /\ EndOf(Append(buffer, x), packet', 4, 1) = EndOf(buffer, packet, 4, 1)
  <2> DEFINE k == 4
  <2>1. /\ VescBytes \in SUBSET ByteSet /\ Lengths \in SUBSET Nat /\ k \in Nat
        /\ InStream(buffer, packet, VescBytes, k, Lengths)
        /\ x.end = packet.length + k
    BY <1>1, <1>9, VescTypes
  <2>2. packet' \in IF packet.next = packet.length + k THEN [length : Lengths, next : {0}]
                                                       ELSE {[packet EXCEPT !.next = @ + 1]}
    BY <1>8
  <2> HIDE DEF k
  <2>3. /\ InStream(Append(buffer, x), packet', VescBytes, k, Lengths)
        /\ IndexOf(Append(buffer, x), packet', 1) = IndexOf(buffer, packet, 1)
        /\ EndOf(Append(buffer, x), packet', k, 1) = EndOf(buffer, packet, k, 1)
    BY ONLY <1>7, <1>9, <2>1, <2>2, StreamSend
  <2> QED BY <2>3 DEF k
<1>11. buffer' = Append(buffer, x)
  BY <1>5 DEF x
<1>12. /\ contents' = contents /\ busy' = busy /\ prefix' = prefix /\ lost' = lost
       /\ working_buffer_fill' = working_buffer_fill /\ length' = length /\ ~busy
  BY DEF EscSends, SendByte, fillVars
<1> QED BY <1>10, <1>11, <1>12 DEF VescSound

LEMMA VescFinds ==
    ASSUME VescSound, FindHeader
    PROVE  VescSound'
<1>1. busy /\ working_buffer_fill = 0
  BY DEF FindHeader
<1>2. /\ Len(buffer) \in Nat /\ Len(buffer) >= 1
      /\ buffer[1] \in VescBytes /\ buffer[1].index = 0
      /\ buffer[1].end = EndOf(buffer, packet, 4, 1) /\ EndOf(buffer, packet, 4, 1) \in Nat
      /\ EndOf(buffer, packet, 4, 1) >= 5
  BY <1>1, VescFirst
<1>3. FirstOf(HEADER) = 1
  <2>1. buffer[1].value = HEADER
    BY <1>2 DEF VescBytes
  <2> QED BY <1>2, <2>1, FirstIsFirst
<1>4. /\ Advance(1) /\ Outcome(1, FALSE, FALSE)
      /\ working_buffer_fill' = 1
      /\ prefix' = (1 # 0 /\ buffer[1].index = 0)
  <2>1. 1 # 0
    OBVIOUS
  <2> QED BY <1>3, <2>1, Zenon DEF FindHeader
<1>5. 1 \in 1..Len(buffer) /\ working_buffer_fill + 1 = 1
      /\ working_buffer_fill + 1 <= EndOf(buffer, packet, 4, 1)
      /\ working_buffer_fill + 1 <= EndOf(buffer, packet, 4, 1) + 1
  BY <1>1, <1>2
<1>6. /\ contents' \in ContentSets
      /\ InStream(buffer', packet', VescBytes, 4, Lengths)
      /\ busy' \in BOOLEAN /\ (busy' => buffer' # << >>)
      /\ IndexOf(buffer', packet', 1) = 1
  BY <1>1, <1>4, <1>5, VescTakes
<1>7. lost' = FALSE
  <2>1. \A i \in 1..1 : i = 1
    OBVIOUS
  <2>2. ~ \E i \in 1..1 : buffer[i].index = buffer[i].end
    BY <1>2, <2>1
  <2> QED BY <1>4, <2>2, Zenon DEF Outcome
<1>8. prefix' = TRUE
  <2>1. 1 # 0
    OBVIOUS
  <2> QED BY <1>4, <1>2, <2>1, Zenon
<1>9. ~(1 >= 2)
  OBVIOUS
<1> QED BY <1>4, <1>6, <1>7, <1>8, <1>9 DEF VescSound

LEMMA VescReads ==
    ASSUME VescSound, ReadLength
    PROVE  VescSound'
<1>1. busy /\ working_buffer_fill = 1
  BY DEF ReadLength
<1>2. /\ Len(buffer) \in Nat /\ Len(buffer) >= 1
      /\ buffer[1] \in VescBytes /\ buffer[1].index = 1
      /\ buffer[1].end = EndOf(buffer, packet, 4, 1) /\ EndOf(buffer, packet, 4, 1) \in Nat
      /\ EndOf(buffer, packet, 4, 1) >= 5
  BY <1>1, VescFirst
<1>3. /\ Advance(1) /\ Outcome(1, FALSE, FALSE)
      /\ working_buffer_fill' = 2
      /\ length' = buffer[1].value
      /\ prefix' = (prefix /\ Follow(1, 1))
  BY DEF ReadLength
<1>4. length' = EndOf(buffer, packet, 4, 1) - 4
  BY <1>2, <1>3 DEF VescBytes
<1>5. 1 \in 1..Len(buffer) /\ working_buffer_fill + 1 = 2
      /\ working_buffer_fill + 1 <= EndOf(buffer, packet, 4, 1)
      /\ working_buffer_fill + 1 <= EndOf(buffer, packet, 4, 1) + 1
  BY <1>1, <1>2
<1>6. /\ contents' \in ContentSets
      /\ InStream(buffer', packet', VescBytes, 4, Lengths)
      /\ busy' \in BOOLEAN /\ (busy' => buffer' # << >>)
      /\ IndexOf(buffer', packet', 1) = 2
      /\ EndOf(buffer', packet', 4, 1) = EndOf(buffer, packet, 4, 1)
  BY <1>1, <1>3, <1>5, VescTakes
<1>7. \A i \in 1..1 : i = 1 /\ 1 + i - 1 = 1
  OBVIOUS
<1>8. lost' = FALSE
  <2>2. ~ \E i \in 1..1 : buffer[i].index = buffer[i].end
    BY <1>2, <1>7
  <2> QED BY <1>3, <2>2, Zenon DEF Outcome
<1>9. prefix' = TRUE
  <2>1. Follow(1, 1)
    BY <1>2, <1>7 DEF Follow
  <2>2. prefix = TRUE
    BY <1>1 DEF VescSound
  <2> QED BY <1>3, <2>1, <2>2
<1> QED BY <1>3, <1>4, <1>6, <1>8, <1>9 DEF VescSound

\* The bytes of the packet, as many as there are or as it still has.
LEMMA VescPayload ==
    ASSUME VescSound, TakePayload, \A l \in Lengths : l + 5 < ByteRange
    PROVE  VescSound'
<1> DEFINE f == working_buffer_fill
           e == EndOf(buffer, packet, 4, 1)
           n == BytesToTake
<1>1. busy /\ f >= 2
  BY DEF TakePayload
<1>2. /\ Len(buffer) \in Nat /\ Len(buffer) >= 1
      /\ e \in Nat /\ e >= 5 /\ f <= e /\ e - 4 \in Lengths
  BY <1>1, VescFirst
<1>3. f \in Nat /\ length = e - 4 /\ prefix = TRUE
  BY <1>1 DEF VescSound
<1>4. ByteRange \in Nat /\ e + 1 < ByteRange
  <2>1. (e - 4) + 5 < ByteRange
    BY <1>2
  <2> HIDE DEF e
  <2> QED BY <2>1, <1>2, StreamAssumption
<1>5. length - (f - 2) + 3 = (e + 1) - f
  <2> HIDE DEF e, f
  <2> QED BY <1>2, <1>3
<1>6. /\ n \in Nat /\ n >= 1 /\ n <= Len(buffer)
      /\ f + n <= e + 1
      /\ n = Len(buffer) \/ f + n = e + 1
  <2>1. n = IF Len(buffer) < (e + 1) - f THEN Len(buffer) ELSE (e + 1) - f
    BY <1>5 DEF BytesToTake
  <2> HIDE DEF e, f, n
  <2> QED BY <2>1, <1>2, <1>3
<1>7. (f + n) % ByteRange = f + n /\ (length + 5 = f + n <=> f + n = e + 1)
  <2> HIDE DEF e, f, n
  <2>1. f + n < ByteRange /\ f + n \in Nat
    BY <1>2, <1>3, <1>4, <1>6
  <2> QED BY <2>1, <1>2, <1>3, <1>4, <1>6
<1>8. Advance(n)
  BY DEF TakePayload
<1>9. /\ contents' \in ContentSets
      /\ InStream(buffer', packet', VescBytes, 4, Lengths)
      /\ busy' \in BOOLEAN
      /\ busy' => buffer' # << >>
      /\ f + n <= e => IndexOf(buffer', packet', 1) = f + n /\ EndOf(buffer', packet', 4, 1) = e
      /\ f + n = e + 1 => IndexOf(buffer', packet', 1) = 0
      /\ Counts(buffer, n, f, e)
  <2>1. n \in 1..Len(buffer)
    <3> HIDE DEF n
    <3> QED BY <1>2, <1>6
  <2> HIDE DEF n
  <2> QED BY <1>1, <1>6, <1>8, <2>1, VescTakes
<1>10. Follow(n, f)
  <2> SUFFICES ASSUME NEW i \in 1..n PROVE buffer[i].index = f + i - 1
    BY DEF Follow
  <2> HIDE DEF n, f, e
  <2>1. f + (i - 1) = f + i - 1
    BY <1>3, <1>6
  <2> QED BY <2>1, <1>9 DEF Counts
<1>11. /\ working_buffer_fill' = IF f + n = e + 1 THEN 0 ELSE f + n
       /\ prefix' = TRUE
       /\ length' = length
       /\ Outcome(n, FALSE, f + n = e + 1)
  <2>1. /\ working_buffer_fill' = IF length + 5 = (f + n) % ByteRange THEN 0
                                  ELSE (f + n) % ByteRange
        /\ prefix' = (prefix /\ Follow(n, f))
        /\ length' = length
        /\ Outcome(n, FALSE, (length + 5 = (f + n) % ByteRange) /\ (prefix /\ Follow(n, f)))
    BY DEF TakePayload
  <2> HIDE DEF n, f, e
  <2>2. (length + 5 = (f + n) % ByteRange) = (f + n = e + 1)
    BY <1>7
  <2>3. (prefix /\ Follow(n, f)) = TRUE
    BY <1>3, <1>10
  <2>4. (length + 5 = (f + n) % ByteRange) /\ (prefix /\ Follow(n, f)) <=> f + n = e + 1
    BY <2>2, <2>3
  <2>5. Outcome(n, FALSE, f + n = e + 1)
    BY <2>1, <2>4, <2>3, Zenon DEF Outcome
  <2>6. working_buffer_fill' = IF f + n = e + 1 THEN 0 ELSE f + n
    BY <2>1, <2>2, <1>7
  <2> QED BY <2>1, <2>3, <2>5, <2>6
<1>12. lost' = FALSE
  <2> HIDE DEF n, f, e
  <2>1. ASSUME NEW i \in 1..n, buffer[i].index = buffer[i].end PROVE f + n = e + 1
    <3>1. f + (i - 1) = e
      BY <2>1, <1>9 DEF Counts
    <3> QED BY <3>1, <1>2, <1>3, <1>6
  <2>2. lost' = (~(f + n = e + 1) /\ ~FALSE /\ \E i \in 1..n : buffer[i].index = buffer[i].end)
    BY <1>11 DEF Outcome
  <2> QED BY <2>1, <2>2, Zenon
<1> HIDE DEF n, f, e
<1>13. CASE f + n = e + 1
  <2>1. working_buffer_fill' = 0 /\ ~(0 >= 1) /\ ~(0 >= 2)
    BY <1>11, <1>13
  <2> QED BY <1>9, <1>11, <1>12, <1>13, <2>1 DEF VescSound
<1>14. CASE f + n # e + 1
  <2>1. f + n <= e /\ f + n \in Nat
    BY <1>2, <1>3, <1>6, <1>14
  <2>2. working_buffer_fill' = f + n
    BY <1>11, <1>14
  <2>3. EndOf(buffer', packet', 4, 1) = e /\ length' = e - 4 /\ IndexOf(buffer', packet', 1) = f + n
    BY <2>1, <1>3, <1>9, <1>11
  <2> QED BY <1>9, <1>11, <1>12, <2>1, <2>2, <2>3 DEF VescSound
<1> QED BY <1>13, <1>14

LEMMA VescPlaceInit ==
    ASSUME VescInit
    PROVE  VescSound
<1>1. /\ contents \in ContentSets /\ buffer = << >> /\ busy = FALSE /\ lost = FALSE
      /\ working_buffer_fill = 0 /\ packet.next = 0
      /\ packet \in [length : Lengths, next : {0}]
  BY DEF VescInit, StreamInit, FillInit
<1>2. packet \in [length : Lengths, next : Nat] /\ packet.length \in Nat
  <2>1. packet \in [length : Lengths, next : Nat]
    BY <1>1
  <2>2. packet.length \in Lengths
    BY <2>1
  <2> QED BY <2>1, <2>2, VescTypes
<1>3. Len(buffer) = 0 /\ ~(1 <= Len(buffer)) /\ buffer \in Seq(VescBytes)
  BY <1>1
<1>4. IndexOf(buffer, packet, 1) = 0 /\ EndOf(buffer, packet, 4, 1) = packet.length + 4
  BY <1>1, <1>3 DEF IndexOf, EndOf
<1>5. Chain(buffer, packet, 4)
  <2> SUFFICES ASSUME NEW i \in 1..1, NEW j \in i..1
               PROVE  /\ IndexOf(buffer, packet, i) + (j - i) <= EndOf(buffer, packet, 4, i) =>
                            /\ IndexOf(buffer, packet, j) = IndexOf(buffer, packet, i) + (j - i)
                            /\ EndOf(buffer, packet, 4, j) = EndOf(buffer, packet, 4, i)
                      /\ IndexOf(buffer, packet, i) + (j - i) = EndOf(buffer, packet, 4, i) + 1 =>
                            IndexOf(buffer, packet, j) = 0
    BY <1>3 DEF Chain
  <2>1. i = 1 /\ j = 1 /\ j - i = 0
    OBVIOUS
  <2> QED BY <1>2, <1>4, <2>1
<1>6. InStream(buffer, packet, VescBytes, 4, Lengths)
  BY <1>1, <1>2, <1>3, <1>5 DEF InStream
<1>7. ~(0 >= 1) /\ ~(0 >= 2)
  OBVIOUS
<1> QED BY <1>1, <1>4, <1>6, <1>7 DEF VescSound

LEMMA VescPlaceStep ==
    ASSUME VescPlace, [VescNext]_vescVars, \A l \in Lengths : l + 5 < ByteRange
    PROVE  VescPlace'
<1>1. CASE truncated
  <2>1. CASE UNCHANGED vescVars
    BY <1>1, <2>1 DEF VescPlace, vescVars, streamVars, peerVars
  <2>2. CASE EscSends
    BY <1>1, <2>2 DEF VescPlace, EscSends, SendByte
  <2>3. CASE VescParse
    <3>1. truncated' = truncated
      BY <2>3 DEF VescParse, FindHeader, ReadLength, TakePayload, Advance, peerVars
    <3> QED BY <1>1, <3>1 DEF VescPlace
  <2>4. CASE CutShort
    BY <1>1, <2>4 DEF CutShort
  <2>5. CASE ProcessBytes
    BY <1>1, <2>5 DEF VescPlace, ProcessBytes, peerVars
  <2> QED BY <2>1, <2>2, <2>3, <2>4, <2>5 DEF VescNext
<1>2. CASE VescSound
  <2>1. CASE UNCHANGED vescVars
    <3>1. /\ contents' = contents /\ packet' = packet /\ buffer' = buffer /\ busy' = busy
          /\ prefix' = prefix /\ lost' = lost /\ length' = length
          /\ working_buffer_fill' = working_buffer_fill
      BY <2>1 DEF vescVars, streamVars, peerVars, fillVars
    <3> QED BY <1>2, <3>1 DEF VescPlace, VescSound
  <2>2. CASE EscSends
    BY <1>2, <2>2, VescSends DEF VescPlace
  <2>3. CASE VescParse
    BY <1>2, <2>3, VescFinds, VescReads, VescPayload DEF VescPlace, VescParse
  <2>4. CASE CutShort
    BY <2>4 DEF CutShort, VescPlace
  <2>5. CASE ProcessBytes /\ UNCHANGED fillVars
    <3>1. /\ contents' = contents /\ packet' = packet /\ buffer' = buffer /\ busy' = TRUE
          /\ prefix' = prefix /\ lost' = lost /\ length' = length /\ buffer # << >>
          /\ working_buffer_fill' = working_buffer_fill
      BY <2>5 DEF ProcessBytes, peerVars, fillVars
    <3> QED BY <1>2, <3>1 DEF VescPlace, VescSound
  <2> QED BY <2>1, <2>2, <2>3, <2>4, <2>5 DEF VescNext
<1> QED BY <1>1, <1>2 DEF VescPlace

\* ProcessBytes of the VESC driver hands on every packet of an intact stream,
\* wherever the buffers end and whatever the payloads hold: for every set of
\* packet lengths with which the fill, a uint8_t, does not wrap around.
THEOREM VescKeepsItsPlace ==
    ASSUME \A l \in Lengths : l + 5 < ByteRange
    PROVE  VescSpec => []NoPacketLost
<1>1. VescInit => VescPlace
  BY VescPlaceInit DEF VescPlace
<1>2. VescPlace /\ [VescNext]_vescVars => VescPlace'
  BY VescPlaceStep
<1>3. VescPlace => NoPacketLost
  BY DEF VescPlace, VescSound, NoPacketLost
<1> QED BY <1>1, <1>2, <1>3, PTL DEF VescSpec

\* Any byte, also of a packet cut short.
RawBytes == [value : 0..(ByteRange - 1), index : Nat, end : Nat]

\* The fill never passes the end of a packet of the length read, not even after
\* it wrapped around: then it is less than 5.
VescBoundsInv ==
    /\ contents \in ContentSets
    /\ packet \in [length : Lengths, next : Nat]
    /\ buffer \in Seq(RawBytes)
    /\ busy \in BOOLEAN
    /\ busy => buffer # << >>
    /\ top \in Nat
    /\ InBounds
    /\ working_buffer_fill >= 2 => working_buffer_fill < length + 5

LEMMA RawAdvance ==
    ASSUME NEW S, NEW n \in Nat, buffer \in Seq(S), Advance(n)
    PROVE  buffer' \in Seq(S) /\ busy' \in BOOLEAN /\ (busy' => buffer' # << >>)
<1> DEFINE c == SubSeq(buffer, n + 1, Len(buffer))
<1>1. Len(buffer) \in Nat /\ n + 1 \in Int /\ Len(buffer) \in Int
      /\ \A i \in (n + 1)..Len(buffer) : buffer[i] \in S
  OBVIOUS
<1>2. /\ c \in Seq(S)
      /\ Len(c) = IF n + 1 <= Len(buffer) THEN Len(buffer) - (n + 1) + 1 ELSE 0
  BY ONLY <1>1, SubSeqProperties
<1>3. buffer' = c /\ busy' = (n < Len(buffer))
  BY DEF Advance
<1>4. n < Len(buffer) => Len(c) > 0
  <2>1. \A l \in Nat : n < l => (IF n + 1 <= l THEN l - (n + 1) + 1 ELSE 0) > 0
    OBVIOUS
  <2> HIDE DEF c
  <2> QED BY ONLY <1>1, <1>2, <2>1, Zenon
<1> HIDE DEF c
<1>5. busy' => buffer' # << >>
  <2>1. Len(c) > 0 => c # << >>
    BY <1>2
  <2> QED BY ONLY <1>3, <1>4, <2>1, Zenon
<1>6. buffer' \in Seq(S)
  BY <1>2, <1>3
<1>7. busy' \in BOOLEAN
  BY <1>3
<1> QED BY <1>5, <1>6, <1>7

LEMMA VescBoundsSend ==
    ASSUME VescBoundsInv, EscSends
    PROVE  VescBoundsInv'
<1> DEFINE last == packet.length + 4
<1>1. packet.length \in Lengths /\ packet.length \in 0..(ByteRange - 1) /\ packet.length \in Nat
      /\ packet.next \in Nat /\ last \in Nat
  <2>1. packet.length \in Lengths /\ packet.next \in Nat
    BY DEF VescBoundsInv
  <2>2. packet.length \in Nat /\ packet.length <= ByteRange - 1
    BY <2>1, VescTypes
  <2>3. ByteRange \in Nat
    BY StreamAssumption
  <2> QED BY <2>1, <2>2, <2>3
<1>2. PICK v \in VescByteValues :
          buffer' = Append(buffer, [value |-> v, index |-> packet.next, end |-> last])
  BY DEF EscSends, SendByte
<1>3. v \in 0..(ByteRange - 1)
  <2>1. HEADER \in 0..(ByteRange - 1) /\ TRAILER \in 0..(ByteRange - 1)
    BY StreamAssumption DEF HEADER, TRAILER
  <2>2. contents \subseteq 0..(ByteRange - 1)
    BY StreamAssumption DEF VescBoundsInv
  <2>3. packet.length + 4 # 0 /\ packet.length + 4 # 1
    BY <1>1
  <2>4. v = HEADER \/ v = packet.length \/ v = TRAILER \/ v \in contents
    <3>1. CASE packet.next = 0
      BY <3>1, <2>3 DEF VescByteValues
    <3>2. CASE packet.next = 1
      BY <3>2, <2>3 DEF VescByteValues
    <3>3. CASE packet.next # 0 /\ packet.next # 1 /\ packet.next = packet.length + 4
      BY <3>3 DEF VescByteValues
    <3>4. CASE packet.next # 0 /\ packet.next # 1 /\ packet.next # packet.length + 4
      BY <3>4 DEF VescByteValues
    <3> QED BY <3>1, <3>2, <3>3, <3>4
  <2> QED BY <1>1, <2>1, <2>2, <2>4
<1>4. buffer' \in Seq(RawBytes)
  <2>1. [value |-> v, index |-> packet.next, end |-> last] \in RawBytes
    BY <1>1, <1>3 DEF RawBytes
  <2>2. buffer \in Seq(RawBytes)
    BY DEF VescBoundsInv
  <2> HIDE DEF last
  <2> QED BY <1>2, <2>1, <2>2
<1>5. packet' \in [length : Lengths, next : Nat]
  <2>1. packet \in [length : Lengths, next : Nat]
    BY DEF VescBoundsInv
  <2>2. packet' \in IF packet.next = last THEN [length : Lengths, next : {0}]
                                          ELSE {[packet EXCEPT !.next = @ + 1]}
    BY DEF EscSends, SendByte
  <2>3. CASE packet.next = last
    BY <2>2, <2>3
  <2>4. CASE packet.next # last
    BY <2>1, <2>2, <2>4
  <2> QED BY <2>3, <2>4
<1>6. /\ contents' = contents /\ busy' = busy /\ ~busy /\ top' = top
      /\ working_buffer_fill' = working_buffer_fill /\ length' = length
  BY DEF EscSends, SendByte, fillVars
<1> QED BY <1>4, <1>5, <1>6 DEF VescBoundsInv, InBounds

\* What a pass of the loop does to the fill.
LEMMA VescBoundsParse ==
    ASSUME VescBoundsInv, VescParse
    PROVE  VescBoundsInv'
<1> USE DEF WORKING_BUFFER_SIZE
<1>1. /\ ByteRange \in Nat /\ ByteRange > 5
      /\ working_buffer_fill \in 0..(ByteRange - 1) /\ length \in 0..(ByteRange - 1)
      /\ top \in Nat /\ top <= ByteRange + 4
      /\ buffer \in Seq(RawBytes) /\ busy /\ Len(buffer) \in Nat /\ Len(buffer) >= 1
      /\ contents' = contents /\ packet' = packet
  <2>1. busy /\ contents' = contents /\ packet' = packet
    BY DEF VescParse, FindHeader, ReadLength, TakePayload, Advance, peerVars
  <2>2. buffer \in Seq(RawBytes) /\ buffer # << >>
    BY <2>1 DEF VescBoundsInv
  <2> QED BY <2>1, <2>2, StreamAssumption DEF VescBoundsInv, InBounds
<1>2. CASE FindHeader
  <2>0. PICK n \in Nat, w \in {0, 1} : /\ Advance(n) /\ working_buffer_fill' = w /\ Written(w)
                                       /\ length' = length
    <3> DEFINE first == FirstOf(HEADER)
               m == IF first = 0 THEN Len(buffer) ELSE first
               u == IF first = 0 THEN 0 ELSE 1
    <3>1. Advance(m) /\ working_buffer_fill' = u /\ Written(u) /\ length' = length
      BY <1>2 DEF FindHeader
    <3>2. first \in Nat
      <4> DEFINE found == {i \in 1..Len(buffer) : buffer[i].value = HEADER}
      <4>1. CASE found = {}
        BY <4>1 DEF FirstOf
      <4>2. CASE found # {}
        <5>1. \E i \in found : \A j \in found : i <= j
          <6>1. found \in SUBSET Nat
            BY <1>1
          <6> HIDE DEF found
          <6> QED BY ONLY <6>1, <4>2, LeastPosition
        <5>2. first = CHOOSE i \in found : \A j \in found : i <= j
          BY <4>2 DEF FirstOf
        <5>3. first \in found
          <6> HIDE DEF found, first
          <6> QED BY <5>1, <5>2
        <5> QED BY <5>3, <1>1
      <4> QED BY <4>1, <4>2
    <3>3. m \in Nat /\ u \in {0, 1}
      BY <1>1, <3>2
    <3> HIDE DEF m, u
    <3> QED BY <3>1, <3>3
  <2>1. buffer' \in Seq(RawBytes) /\ busy' \in BOOLEAN /\ (busy' => buffer' # << >>)
    BY <1>1, <2>0, RawAdvance
  <2>2. top' \in Nat /\ top' <= ByteRange + 4 /\ working_buffer_fill' \in 0..(ByteRange - 1)
        /\ ~(working_buffer_fill' >= 2)
    BY <1>1, <2>0 DEF Written
  <2> QED BY <1>1, <2>0, <2>1, <2>2 DEF VescBoundsInv, InBounds
<1>3. CASE ReadLength
  <2>0. /\ Advance(1) /\ working_buffer_fill' = 2 /\ Written(2) /\ length' = buffer[1].value
    BY <1>3 DEF ReadLength
  <2>1. buffer' \in Seq(RawBytes) /\ busy' \in BOOLEAN /\ (busy' => buffer' # << >>)
    BY <1>1, <2>0, RawAdvance
  <2>2. buffer[1] \in RawBytes
    BY <1>1
  <2>3. length' \in 0..(ByteRange - 1)
    BY <2>0, <2>2 DEF RawBytes
  <2>4. top' \in Nat /\ top' <= ByteRange + 4 /\ working_buffer_fill' \in 0..(ByteRange - 1)
        /\ working_buffer_fill' < length' + 5
    BY <1>1, <2>0, <2>3 DEF Written
  <2> QED BY <1>1, <2>1, <2>3, <2>4 DEF VescBoundsInv, InBounds
<1>4. CASE TakePayload
  <2> DEFINE f == working_buffer_fill
             n == BytesToTake
             w == (f + n) % ByteRange
  <2>0. /\ Advance(n) /\ Written(f + n) /\ length' = length
        /\ working_buffer_fill' = IF length + 5 = w THEN 0 ELSE w
        /\ f >= 2
    BY <1>4 DEF TakePayload
  <2>1. f < length + 5
    BY <2>0 DEF VescBoundsInv
  <2>2. n = IF Len(buffer) < length - (f - 2) + 3 THEN Len(buffer) ELSE length - (f - 2) + 3
    BY DEF BytesToTake
  <2>3. n \in Nat /\ n >= 1 /\ f + n <= length + 5 /\ f + n \in Nat /\ f \in Nat /\ length \in Nat
        /\ length <= ByteRange - 1
    <3> HIDE DEF n
    <3> QED BY <1>1, <2>0, <2>1, <2>2
  <2>4. w \in 0..(ByteRange - 1) /\ (f + n < ByteRange => w = f + n)
        /\ (f + n >= ByteRange => w = f + n - ByteRange)
    <3> HIDE DEF f, n
    <3> QED BY <1>1, <2>3
  <2> HIDE DEF w, n
  <2>5. w \in 0..(ByteRange - 1) /\ (length + 5 # w => w < length + 5)
    BY <1>1, <2>3, <2>4
  <2>6. working_buffer_fill' \in 0..(ByteRange - 1) /\ working_buffer_fill' < length' + 5
    <3>1. 0 \in 0..(ByteRange - 1) /\ 0 < length + 5
      BY <1>1
    <3>2. CASE length + 5 = w
      BY <2>0, <3>1, <3>2
    <3>3. CASE length + 5 # w
      BY <2>0, <2>5, <3>3
    <3> QED BY <3>2, <3>3
  <2>7. top' \in Nat /\ top' <= ByteRange + 4
    BY <1>1, <2>0, <2>3 DEF Written
  <2>8. buffer' \in Seq(RawBytes) /\ busy' \in BOOLEAN /\ (busy' => buffer' # << >>)
    BY <1>1, <2>0, <2>3, RawAdvance
  <2> QED BY <1>1, <2>0, <2>6, <2>7, <2>8 DEF VescBoundsInv, InBounds
<1> QED BY <1>2, <1>3, <1>4 DEF VescParse

LEMMA VescBoundsStart == VescInit => VescBoundsInv
<1> SUFFICES ASSUME VescInit PROVE VescBoundsInv
  OBVIOUS
<1>1. /\ contents \in ContentSets /\ packet \in [length : Lengths, next : {0}]
      /\ buffer = << >> /\ busy = FALSE /\ working_buffer_fill = 0 /\ length = 0 /\ top = 0
  BY DEF VescInit, StreamInit, FillInit
<1>2. packet \in [length : Lengths, next : Nat]
  BY <1>1
<1>3. InBounds /\ ~(working_buffer_fill >= 2) /\ top \in Nat
  BY <1>1, StreamAssumption DEF InBounds, WORKING_BUFFER_SIZE
<1>4. buffer \in Seq(RawBytes)
  BY <1>1
<1> QED BY <1>1, <1>2, <1>3, <1>4 DEF VescBoundsInv

LEMMA VescBoundsStep ==
    ASSUME VescBoundsInv, [VescNext]_vescVars
    PROVE  VescBoundsInv'
<1>1. CASE UNCHANGED vescVars
  BY <1>1 DEF VescBoundsInv, InBounds, WORKING_BUFFER_SIZE, vescVars, streamVars, peerVars, fillVars
<1>2. CASE EscSends
  BY <1>2, VescBoundsSend
<1>3. CASE VescParse
  BY <1>3, VescBoundsParse
<1>4. CASE CutShort /\ UNCHANGED fillVars
  <2>1. packet' \in [length : Lengths, next : Nat]
    BY <1>4 DEF CutShort, VescBoundsInv
  <2> QED BY <1>4, <2>1 DEF CutShort, VescBoundsInv, InBounds, WORKING_BUFFER_SIZE, fillVars
<1>5. CASE ProcessBytes /\ UNCHANGED fillVars
  BY <1>5 DEF ProcessBytes, VescBoundsInv, InBounds, WORKING_BUFFER_SIZE, peerVars, fillVars
<1> QED BY <1>1, <1>2, <1>3, <1>4, <1>5 DEF VescNext

\* The memcpy of ProcessBytes stays in the working buffer of the VESC driver: for
\* all packet lengths a byte can hold, also when packets are cut short and the
\* length is read from the middle of another one, although the fill, a uint8_t,
\* wraps around with the longest.
THEOREM VescStaysInBounds == VescSpec => []InBounds
<1>1. VescBoundsInv => InBounds
  BY DEF VescBoundsInv
<1> QED BY <1>1, VescBoundsStart, VescBoundsStep, PTL DEF VescSpec

-----------------------------------------------------------------------------
(* The parser of the u-blox driver.                                        *)

\* A byte of an intact packet.
UbxBytes ==
    {x \in [value : Int, index : Nat, end : Nat] :
        /\ x.index <= x.end
        /\ x.end - 7 \in PayloadLengths
        /\ x.index = 0 => x.value = SYNC_1
        /\ x.index = 1 => x.value = SYNC_2
        /\ x.index = 4 => x.value = (x.end - 7) % ByteRange
        /\ x.index = 5 => x.value = (x.end - 7) \div ByteRange}

\* As long as no packet was cut short the next byte is the one that the fill
\* stands for, and the length bytes read are those of the packet.
UbxSound ==
    /\ contents \in ContentSets
    /\ InStream(buffer, packet, UbxBytes, 7, PayloadLengths)
    /\ busy \in BOOLEAN
    /\ busy => buffer # << >>
    /\ gbuffer_fill \in Nat
    /\ length_field \in [1..2 -> Int]
    /\ IndexOf(buffer, packet, 1) = gbuffer_fill
    /\ found_header = (gbuffer_fill >= 2)
    /\ gbuffer_fill >= 1 => prefix = TRUE
    /\ gbuffer_fill >= 5 => length_field[1] = (EndOf(buffer, packet, 7, 1) - 7) % ByteRange
    /\ gbuffer_fill >= 6 => length_field[2] = (EndOf(buffer, packet, 7, 1) - 7) \div ByteRange
    /\ lost = FALSE

UbxPlace == truncated \/ UbxSound

LEMMA UbxTypes ==
    /\ UbxBytes \in SUBSET ByteSet
    /\ PayloadLengths \in SUBSET Nat
    /\ \A l \in PayloadLengths : l \in Nat /\ l <= BufferSize - 8
    /\ 7 \in Nat
    /\ \A x \in UbxBytes : x.index \in Nat /\ x.end \in Nat /\ x.value \in Int /\ x.end >= 7
<1>1. BufferSize \in Nat /\ ByteRange \in Nat
  BY StreamAssumption, UbxAssumption
<1>2. PayloadLengths \in SUBSET Nat /\ \A l \in PayloadLengths : l \in Nat /\ l <= BufferSize - 8
  BY <1>1, UbxAssumption
<1>3. ASSUME NEW x \in UbxBytes
      PROVE  x.index \in Nat /\ x.end \in Nat /\ x.value \in Int /\ x.end >= 7 /\ x \in ByteSet
  <2>1. x \in [value : Int, index : Nat, end : Nat] /\ x.end - 7 \in PayloadLengths
    BY DEF UbxBytes
  <2>2. x.index \in Nat /\ x.end \in Nat /\ x.value \in Int /\ x \in ByteSet
    BY <2>1 DEF ByteSet
  <2>3. x.end - 7 \in Nat
    BY <2>1, <1>2
  <2> QED BY <2>2, <2>3
<1> QED BY <1>2, <1>3

\* What the first byte to come is, when there is one.
LEMMA UbxFirst ==
    ASSUME UbxSound, busy
    PROVE  /\ Len(buffer) \in Nat /\ Len(buffer) >= 1
           /\ buffer[1] \in UbxBytes
           /\ buffer[1].index = gbuffer_fill
           /\ buffer[1].end = EndOf(buffer, packet, 7, 1)
           /\ IndexOf(buffer, packet, 1) \in Nat
           /\ EndOf(buffer, packet, 7, 1) \in Nat
           /\ EndOf(buffer, packet, 7, 1) >= 7
           /\ gbuffer_fill <= EndOf(buffer, packet, 7, 1)
           /\ EndOf(buffer, packet, 7, 1) - 7 \in PayloadLengths
<1>1. buffer \in Seq(UbxBytes) /\ buffer # << >>
  BY DEF UbxSound, InStream
<1>2. Len(buffer) \in Nat /\ Len(buffer) >= 1 /\ buffer[1] \in UbxBytes
  BY <1>1
<1>3. /\ IndexOf(buffer, packet, 1) = buffer[1].index
      /\ EndOf(buffer, packet, 7, 1) = buffer[1].end
  BY <1>2 DEF IndexOf, EndOf
<1>4. /\ buffer[1].index \in Nat /\ buffer[1].end \in Nat /\ buffer[1].end >= 7
  BY <1>2, UbxTypes
<1>5. buffer[1].index <= buffer[1].end /\ buffer[1].end - 7 \in PayloadLengths
  BY <1>2 DEF UbxBytes
<1> QED BY <1>2, <1>3, <1>4, <1>5 DEF UbxSound

\* A pass that takes n bytes of the packet that comes first.
LEMMA UbxTakes ==
    ASSUME UbxSound, busy, NEW n \in 1..Len(buffer), Advance(n),
           gbuffer_fill + n <= EndOf(buffer, packet, 7, 1) + 1
    PROVE  /\ contents' \in ContentSets
           /\ InStream(buffer', packet', UbxBytes, 7, PayloadLengths)
           /\ busy' \in BOOLEAN
           /\ busy' => buffer' # << >>
           /\ gbuffer_fill + n <= EndOf(buffer, packet, 7, 1) =>
                 /\ IndexOf(buffer', packet', 1) = gbuffer_fill + n
                 /\ EndOf(buffer', packet', 7, 1) = EndOf(buffer, packet, 7, 1)
           /\ gbuffer_fill + n = EndOf(buffer, packet, 7, 1) + 1 =>
                 IndexOf(buffer', packet', 1) = 0
           /\ Counts(buffer, n, gbuffer_fill, EndOf(buffer, packet, 7, 1))
<1> DEFINE f == gbuffer_fill
           e == EndOf(buffer, packet, 7, 1)
           c == SubSeq(buffer, n + 1, Len(buffer))
<1>1. n \in 0..Len(buffer) /\ n \in Nat /\ Len(buffer) \in Nat
  BY UbxFirst
<1>2. InStream(buffer, packet, UbxBytes, 7, PayloadLengths)
  BY DEF UbxSound
<1>3. f \in Nat /\ e \in Nat /\ f = IndexOf(buffer, packet, 1)
  BY UbxFirst DEF UbxSound
<1>4. buffer' = c /\ busy' = (n < Len(buffer)) /\ packet' = packet /\ contents' = contents
  BY DEF Advance, peerVars
<1>5. /\ InStream(c, packet, UbxBytes, 7, PayloadLengths)
      /\ Len(c) = Len(buffer) - n
      /\ IndexOf(c, packet, 1) = IndexOf(buffer, packet, n + 1)
      /\ EndOf(c, packet, 7, 1) = EndOf(buffer, packet, 7, n + 1)
  <2> DEFINE k == 7
  <2>1. UbxBytes \in SUBSET ByteSet /\ PayloadLengths \in SUBSET Nat /\ k \in Nat
        /\ InStream(buffer, packet, UbxBytes, k, PayloadLengths) /\ n \in Nat /\ n <= Len(buffer)
    BY <1>1, <1>2, UbxTypes
  <2> HIDE DEF k
  <2>2. /\ InStream(c, packet, UbxBytes, k, PayloadLengths)
        /\ Len(c) = Len(buffer) - n
        /\ IndexOf(c, packet, 1) = IndexOf(buffer, packet, n + 1)
        /\ EndOf(c, packet, k, 1) = EndOf(buffer, packet, k, n + 1)
    BY ONLY <2>1, StreamAdvance
  <2> QED BY <2>2 DEF k
<1>6. /\ Counts(buffer, n, f, e)
      /\ f + n <= e => IndexOf(buffer, packet, n + 1) = f + n /\ EndOf(buffer, packet, 7, n + 1) = e
      /\ f + n = e + 1 => IndexOf(buffer, packet, n + 1) = 0
  <2>1. Within(buffer, packet, 7, n)
    BY <1>1, <1>3 DEF Within
  <2>2. CountedUpTo(buffer, packet, 7, n)
    BY ONLY <1>2, <2>1, UbxTypes, StreamRun
  <2> QED BY <1>3, <2>2 DEF CountedUpTo
<1>7. busy' => buffer' # << >>
  <2> SUFFICES ASSUME n < Len(buffer) PROVE c # << >>
    BY <1>4
  <2>1. Len(c) > 0
    BY <1>1, <1>5
  <2> HIDE DEF c
  <2> QED BY <2>1
<1>8. contents' \in ContentSets /\ busy' \in BOOLEAN
  BY <1>4 DEF UbxSound
<1> HIDE DEF c
<1> QED BY <1>4, <1>5, <1>6, <1>7, <1>8

LEMMA UbxSends ==
    ASSUME UbxSound, ReceiverSends
    PROVE  UbxSound'
<1> DEFINE last == packet.length + 7
<1>1. InStream(buffer, packet, UbxBytes, 7, PayloadLengths)
  BY DEF UbxSound
<1>2. packet \in [length : PayloadLengths, next : Nat] /\ packet.next <= last
  BY <1>1 DEF InStream
<1>3. packet.length \in PayloadLengths /\ packet.length \in Nat /\ packet.next \in Nat
  BY <1>2, UbxTypes
<1>4. ByteRange \in Nat /\ ByteRange > 5
  BY StreamAssumption
<1>5. PICK v \in UbxByteValues :
          buffer' = Append(buffer, [value |-> v, index |-> packet.next, end |-> last])
  BY DEF ReceiverSends, SendByte
<1> DEFINE x == [value |-> v, index |-> packet.next, end |-> last]
<1>6. /\ v \in Int
      /\ packet.next = 0 => v = SYNC_1
      /\ packet.next = 1 => v = SYNC_2
      /\ packet.next = 4 => v = packet.length % ByteRange
      /\ packet.next = 5 => v = packet.length \div ByteRange
  <2>0. packet.length % ByteRange \in Int /\ packet.length \div ByteRange \in Int
    BY <1>3, <1>4
  <2>1. CASE packet.next = 0
    BY <2>1 DEF UbxByteValues, SYNC_1
  <2>2. CASE packet.next = 1
    BY <2>2 DEF UbxByteValues, SYNC_2
  <2>3. CASE packet.next = 4
    <3>1. v = packet.length % ByteRange
      BY <2>3 DEF UbxByteValues
    <3> QED BY <2>0, <2>3, <3>1
  <2>4. CASE packet.next = 5
    <3>1. v = packet.length \div ByteRange
      BY <2>4 DEF UbxByteValues
    <3> QED BY <2>0, <2>4, <3>1
  <2>5. CASE packet.next # 0 /\ packet.next # 1 /\ packet.next # 4 /\ packet.next # 5
    <3>1. v \in contents
      BY <2>5 DEF UbxByteValues
    <3>2. contents \subseteq 0..(ByteRange - 1)
      BY StreamAssumption DEF UbxSound
    <3> QED BY <2>5, <3>1, <3>2, <1>4
  <2> QED BY <2>1, <2>2, <2>3, <2>4, <2>5
<1>7. x \in UbxBytes
  <2>1. last \in Nat /\ last - 7 = packet.length
    BY <1>3
  <2>2. x \in [value : Int, index : Nat, end : Nat]
    BY <1>3, <1>6, <2>1
  <2>3. x.index = packet.next /\ x.end = last /\ x.value = v
    OBVIOUS
  <2> HIDE DEF x, last
  <2> QED BY <1>2, <1>3, <1>6, <2>1, <2>2, <2>3 DEF UbxBytes
<1>8. packet' \in IF packet.next = last THEN [length : PayloadLengths, next : {0}]
                                        ELSE {[packet EXCEPT !.next = @ + 1]}
  BY DEF ReceiverSends, SendByte
<1>9. x.index = packet.next /\ x.end = packet.length + 7
  OBVIOUS
<1> HIDE DEF x
<1>10. /\ InStream(Append(buffer, x), packet', UbxBytes, 7, PayloadLengths)
       /\ IndexOf(Append(buffer, x), packet', 1) = IndexOf(buffer, packet, 1)
       /\ EndOf(Append(buffer, x), packet', 7, 1) = EndOf(buffer, packet, 7, 1)
  <2> DEFINE k == 7
  <2>1. /\ UbxBytes \in SUBSET ByteSet /\ PayloadLengths \in SUBSET Nat /\ k \in Nat
        /\ InStream(buffer, packet, UbxBytes, k, PayloadLengths)
        /\ x.end = packet.length + k
    BY <1>1, <1>9, UbxTypes
  <2>2. packet' \in IF packet.next = packet.length + k THEN [length : PayloadLengths, next : {0}]
                                                       ELSE {[packet EXCEPT !.next = @ + 1]}
    BY <1>8
  <2> HIDE DEF k
  <2>3. /\ InStream(Append(buffer, x), packet', UbxBytes, k, PayloadLengths)
        /\ IndexOf(Append(buffer, x), packet', 1) = IndexOf(buffer, packet, 1)
        /\ EndOf(Append(buffer, x), packet', k, 1) = EndOf(buffer, packet, k, 1)
    BY ONLY <1>7, <1>9, <2>1, <2>2, StreamSend
  <2> QED BY <2>3 DEF k
<1>11. buffer' = Append(buffer, x)
  BY <1>5 DEF x
<1>12. /\ contents' = contents /\ busy' = busy /\ prefix' = prefix /\ lost' = lost /\ ~busy
       /\ gbuffer_fill' = gbuffer_fill /\ length_field' = length_field
       /\ found_header' = found_header
  BY DEF ReceiverSends, SendByte, gbufferVars
<1> QED BY <1>10, <1>11, <1>12 DEF UbxSound

LEMMA UbxFinds ==
    ASSUME UbxSound, FindSync1
    PROVE  UbxSound'
<1>1. busy /\ gbuffer_fill = 0
  BY DEF FindSync1
<1>2. /\ Len(buffer) \in Nat /\ Len(buffer) >= 1
      /\ buffer[1] \in UbxBytes /\ buffer[1].index = 0
      /\ buffer[1].end = EndOf(buffer, packet, 7, 1) /\ EndOf(buffer, packet, 7, 1) \in Nat
      /\ EndOf(buffer, packet, 7, 1) >= 7
  BY <1>1, UbxFirst
<1>3. FirstOf(SYNC_1) = 1
  <2>1. buffer[1].value = SYNC_1
    BY <1>2 DEF UbxBytes
  <2> QED BY <1>2, <2>1, FirstIsFirst
<1>4. /\ Advance(1) /\ Outcome(1, FALSE, FALSE)
      /\ gbuffer_fill' = 1
      /\ prefix' = (1 # 0 /\ buffer[1].index = 0)
  <2>1. 1 # 0
    OBVIOUS
  <2> QED BY <1>3, <2>1, Zenon DEF FindSync1
<1>5. 1 \in 1..Len(buffer) /\ gbuffer_fill + 1 = 1
      /\ gbuffer_fill + 1 <= EndOf(buffer, packet, 7, 1)
      /\ gbuffer_fill + 1 <= EndOf(buffer, packet, 7, 1) + 1
  BY <1>1, <1>2
<1>6. /\ contents' \in ContentSets
      /\ InStream(buffer', packet', UbxBytes, 7, PayloadLengths)
      /\ busy' \in BOOLEAN /\ (busy' => buffer' # << >>)
      /\ IndexOf(buffer', packet', 1) = 1
  BY <1>1, <1>4, <1>5, UbxTakes
<1>7. lost' = FALSE
  <2>1. \A i \in 1..1 : i = 1
    OBVIOUS
  <2>2. ~ \E i \in 1..1 : buffer[i].index = buffer[i].end
    BY <1>2, <2>1
  <2> QED BY <1>4, <2>2, Zenon DEF Outcome
<1>8. prefix' = TRUE
  <2>1. 1 # 0
    OBVIOUS
  <2> QED BY <1>4, <1>2, <2>1, Zenon
<1>9. (1 >= 2) = FALSE /\ ~(1 >= 5) /\ ~(1 >= 6) /\ 1 \in Nat
  OBVIOUS
<1>10. found_header' = FALSE /\ length_field' = length_field
  BY DEF FindSync1
<1> QED BY <1>4, <1>6, <1>7, <1>8, <1>9, <1>10 DEF UbxSound

LEMMA UbxFinds2 ==
    ASSUME UbxSound, FindSync2
    PROVE  UbxSound'
<1>1. busy /\ gbuffer_fill = 1
  BY DEF FindSync2
<1>2. /\ Len(buffer) \in Nat /\ Len(buffer) >= 1
      /\ buffer[1] \in UbxBytes /\ buffer[1].index = 1
      /\ buffer[1].end = EndOf(buffer, packet, 7, 1) /\ EndOf(buffer, packet, 7, 1) \in Nat
      /\ EndOf(buffer, packet, 7, 1) >= 7
  BY <1>1, UbxFirst
<1>3. buffer[1].value = SYNC_2
  BY <1>2 DEF UbxBytes
<1>4. /\ Advance(1) /\ Outcome(1, FALSE, FALSE)
      /\ gbuffer_fill' = 2
      /\ found_header' = TRUE
      /\ prefix' = (prefix /\ Follow(1, 1))
      /\ length_field' = length_field
  BY <1>3, Zenon DEF FindSync2
<1>5. 1 \in 1..Len(buffer) /\ gbuffer_fill + 1 = 2
      /\ gbuffer_fill + 1 <= EndOf(buffer, packet, 7, 1)
      /\ gbuffer_fill + 1 <= EndOf(buffer, packet, 7, 1) + 1
  BY <1>1, <1>2
<1>6. /\ contents' \in ContentSets
      /\ InStream(buffer', packet', UbxBytes, 7, PayloadLengths)
      /\ busy' \in BOOLEAN /\ (busy' => buffer' # << >>)
      /\ IndexOf(buffer', packet', 1) = 2
  BY <1>1, <1>4, <1>5, UbxTakes
<1>7. \A i \in 1..1 : i = 1 /\ 1 + i - 1 = 1
  OBVIOUS
<1>8. lost' = FALSE
  <2>2. ~ \E i \in 1..1 : buffer[i].index = buffer[i].end
    BY <1>2, <1>7
  <2> QED BY <1>4, <2>2, Zenon DEF Outcome
<1>9. prefix' = TRUE
  <2>1. Follow(1, 1)
    BY <1>2, <1>7 DEF Follow
  <2>2. prefix = TRUE
    BY <1>1 DEF UbxSound
  <2> QED BY <1>4, <2>1, <2>2
<1>10. (2 >= 2) = TRUE /\ ~(2 >= 5) /\ ~(2 >= 6) /\ 2 \in Nat
  OBVIOUS
<1> QED BY <1>4, <1>6, <1>8, <1>9, <1>10 DEF UbxSound

LEMMA UbxHeader ==
    ASSUME UbxSound, ReadHeader
    PROVE  UbxSound'
<1> DEFINE f == gbuffer_fill
           e == EndOf(buffer, packet, 7, 1)
           n == IF Len(buffer) < 6 - f THEN Len(buffer) ELSE 6 - f
<1>1. busy /\ found_header /\ f < 6
  BY DEF ReadHeader
<1>2. /\ Len(buffer) \in Nat /\ Len(buffer) >= 1
      /\ e \in Nat /\ e >= 7
      /\ \A i \in 1..Len(buffer) : buffer[i] \in UbxBytes
  <2>1. \A i \in 1..Len(buffer) : buffer[i] \in UbxBytes
    BY DEF UbxSound, InStream
  <2> QED BY <1>1, <2>1, UbxFirst
<1>3. /\ f \in Nat /\ f >= 2 /\ prefix = TRUE /\ length_field \in [1..2 -> Int]
      /\ f >= 5 => length_field[1] = (e - 7) % ByteRange
  <2>1. f \in Nat /\ (f >= 2) = TRUE /\ length_field \in [1..2 -> Int]
    BY <1>1 DEF UbxSound
  <2>2. f >= 1 /\ f >= 2
    BY <2>1
  <2> QED BY <2>1, <2>2 DEF UbxSound
<1>4. n \in Nat /\ n >= 1 /\ n <= Len(buffer) /\ f + n <= 6
  <2> HIDE DEF f
  <2> QED BY <1>1, <1>2, <1>3
<1>5. /\ Advance(n)
      /\ Outcome(n, prefix /\ Follow(n, f), FALSE)
      /\ gbuffer_fill' = f + n
      /\ prefix' = (prefix /\ Follow(n, f))
      /\ found_header' = found_header
      /\ length_field' = [i \in 1..2 |-> IF i + 4 - f \in 1..n THEN buffer[i + 4 - f].value
                                         ELSE length_field[i]]
  BY DEF ReadHeader
<1> HIDE DEF n
<1>6. f + n <= e /\ f + n <= e + 1 /\ n \in 1..Len(buffer)
  <2> HIDE DEF f, e
  <2> QED BY <1>2, <1>3, <1>4
<1>7. /\ contents' \in ContentSets
      /\ InStream(buffer', packet', UbxBytes, 7, PayloadLengths)
      /\ busy' \in BOOLEAN
      /\ busy' => buffer' # << >>
      /\ IndexOf(buffer', packet', 1) = f + n
      /\ EndOf(buffer', packet', 7, 1) = e
      /\ Counts(buffer, n, f, e)
  BY <1>1, <1>5, <1>6, UbxTakes
<1>8. Follow(n, f)
  <2> SUFFICES ASSUME NEW i \in 1..n PROVE buffer[i].index = f + i - 1
    BY DEF Follow
  <2> HIDE DEF f, e
  <2>1. f + (i - 1) = f + i - 1
    BY <1>3, <1>4
  <2> QED BY <2>1, <1>7 DEF Counts
<1> HIDE DEF f, e
<1>9. lost' = FALSE /\ prefix' = TRUE
  <2>1. (prefix /\ Follow(n, f)) = TRUE
    BY <1>3, <1>8
  <2>2. lost' = (~FALSE /\ ~(prefix /\ Follow(n, f)) /\ \E i \in 1..n : buffer[i].index = buffer[i].end)
    BY <1>5 DEF Outcome
  <2> QED BY <1>5, <2>1, <2>2
<1>10. \A i \in 1..n : /\ buffer[i].value \in Int
                       /\ f + (i - 1) = 4 => buffer[i].value = (e - 7) % ByteRange
                       /\ f + (i - 1) = 5 => buffer[i].value = (e - 7) \div ByteRange
  <2> SUFFICES ASSUME NEW i \in 1..n
               PROVE  /\ buffer[i].value \in Int
                      /\ f + (i - 1) = 4 => buffer[i].value = (e - 7) % ByteRange
                      /\ f + (i - 1) = 5 => buffer[i].value = (e - 7) \div ByteRange
    OBVIOUS
  <2>1. i \in 1..Len(buffer)
    BY <1>2, <1>4
  <2>2. buffer[i].index = f + (i - 1) /\ buffer[i].end = e
    BY <1>7 DEF Counts
  <2> QED BY <1>2, <2>1, <2>2 DEF UbxBytes
<1>11. length_field' \in [1..2 -> Int]
  <2>1. \A i \in 1..2 : (IF i + 4 - f \in 1..n THEN buffer[i + 4 - f].value ELSE length_field[i]) \in Int
    BY <1>3, <1>10
  <2> QED BY <1>5, <2>1
<1>12. f + n >= 5 => length_field'[1] = (e - 7) % ByteRange
  <2>1. length_field'[1] = IF 1 + 4 - f \in 1..n THEN buffer[1 + 4 - f].value ELSE length_field[1]
    BY <1>5
  <2>2. CASE 1 + 4 - f \in 1..n
    <3>1. f + ((1 + 4 - f) - 1) = 4
      BY <1>3
    <3> QED BY <2>1, <2>2, <3>1, <1>10
  <2>3. CASE 1 + 4 - f \notin 1..n
    <3>1. f + n >= 5 => f >= 5
      BY <2>3, <1>3, <1>4
    <3> QED BY <2>1, <2>3, <3>1, <1>3
  <2> QED BY <2>2, <2>3
<1>13. f + n >= 6 => length_field'[2] = (e - 7) \div ByteRange
  <2>1. length_field'[2] = IF 2 + 4 - f \in 1..n THEN buffer[2 + 4 - f].value ELSE length_field[2]
    BY <1>5
  <2>2. f + n >= 6 => 2 + 4 - f \in 1..n
    BY <1>1, <1>3, <1>4
  <2>3. f + ((2 + 4 - f) - 1) = 5
    BY <1>3
  <2> QED BY <2>1, <2>2, <2>3, <1>10
<1>14. f + n \in Nat /\ (f + n >= 2) = TRUE
  BY <1>3, <1>4
<1>15. found_header' = TRUE
  BY <1>1, <1>5 DEF UbxSound
<1> QED BY <1>5, <1>7, <1>9, <1>11, <1>12, <1>13, <1>14, <1>15 DEF UbxSound

\* The two length bytes give the length back.
LEMMA DivMod ==
    ASSUME NEW l \in Nat, NEW b \in Nat \ {0}
    PROVE  (l \div b) * b + (l % b) = l
OBVIOUS

\* The header of an intact packet gives its length, which fits.
LEMMA UbxTotal ==
    ASSUME UbxSound, busy, gbuffer_fill >= 6
    PROVE  TotalLength = EndOf(buffer, packet, 7, 1) + 1 /\ Fits
<1> DEFINE l == EndOf(buffer, packet, 7, 1) - 7
<1>1. l \in PayloadLengths /\ EndOf(buffer, packet, 7, 1) \in Nat
  BY UbxFirst
<1>2. l \in Nat /\ l <= BufferSize - 8 /\ BufferSize \in Nat /\ BufferSize < ByteRange * ByteRange
      /\ ByteRange \in Nat \ {0}
  <2> HIDE DEF l
  <2> QED BY <1>1, UbxTypes, UbxAssumption, StreamAssumption
<1>3. length_field[1] = l % ByteRange /\ length_field[2] = l \div ByteRange
  <2>1. gbuffer_fill >= 5
    BY DEF UbxSound
  <2> QED BY <2>1 DEF UbxSound
<1>4. EndOf(buffer, packet, 7, 1) + 1 = l + 8
  BY <1>1
<1> HIDE DEF l
<1>5. PayloadLength = l
  BY <1>2, <1>3, DivMod DEF PayloadLength
<1>6. TotalLength = l + 8
  <2> DEFINE w == ByteRange * ByteRange
  <2>1. TotalLength = (l + 8) % w
    BY <1>5 DEF TotalLength
  <2>2. w \in Nat /\ l + 8 < w
    BY <1>2
  <2> HIDE DEF w
  <2> QED BY <1>2, <2>1, <2>2
<1> QED BY <1>2, <1>4, <1>6 DEF Fits

LEMMA UbxRest ==
    ASSUME UbxSound, TakeRest
    PROVE  UbxSound'
<1> DEFINE f == gbuffer_fill
           e == EndOf(buffer, packet, 7, 1)
           n == IF TotalLength - f \in 0..Len(buffer) THEN TotalLength - f ELSE Len(buffer)
           good == prefix /\ Follow(n, f)
<1>1. busy /\ found_header /\ f >= 6
  BY DEF TakeRest
<1>2. /\ Len(buffer) \in Nat /\ Len(buffer) >= 1
      /\ e \in Nat /\ e >= 7 /\ f <= e /\ f \in Nat
  BY <1>1, UbxFirst DEF UbxSound
<1>3. TotalLength = e + 1
  BY <1>1, UbxTotal
<1>4. prefix = TRUE /\ length_field \in [1..2 -> Int]
  <2>1. f >= 1
    BY <1>1, <1>2
  <2> QED BY <2>1 DEF UbxSound
<1>5. /\ Advance(n)
      /\ Outcome(n, good /\ ~(TotalLength <= f + n), (TotalLength <= f + n) /\ good)
      /\ gbuffer_fill' = IF TotalLength <= f + n THEN 0 ELSE f + n
      /\ found_header' = ~(TotalLength <= f + n)
      /\ prefix' = good
      /\ length_field' = length_field
  BY DEF TakeRest, RestToTake
<1>6. n \in Nat /\ n >= 1 /\ n <= Len(buffer) /\ f + n <= e + 1
  <2>1. n = IF (e + 1) - f \in 0..Len(buffer) THEN (e + 1) - f ELSE Len(buffer)
    BY <1>3
  <2> HIDE DEF f, e, n
  <2> QED BY <2>1, <1>2
<1> HIDE DEF n, good
<1>7. n \in 1..Len(buffer)
  BY <1>2, <1>6
<1>8. /\ contents' \in ContentSets
      /\ InStream(buffer', packet', UbxBytes, 7, PayloadLengths)
      /\ busy' \in BOOLEAN
      /\ busy' => buffer' # << >>
      /\ f + n <= e => IndexOf(buffer', packet', 1) = f + n /\ EndOf(buffer', packet', 7, 1) = e
      /\ f + n = e + 1 => IndexOf(buffer', packet', 1) = 0
      /\ Counts(buffer, n, f, e)
  BY <1>1, <1>5, <1>6, <1>7, UbxTakes
<1>9. good = TRUE
  <2>1. Follow(n, f)
    <3> SUFFICES ASSUME NEW i \in 1..n PROVE buffer[i].index = f + i - 1
      BY DEF Follow
    <3> HIDE DEF f, e
    <3>1. f + (i - 1) = f + i - 1
      BY <1>2, <1>6
    <3> QED BY <3>1, <1>8 DEF Counts
  <2> QED BY <2>1, <1>4 DEF good
<1> HIDE DEF f, e
<1>10. (TotalLength <= f + n) = (f + n = e + 1)
  BY <1>2, <1>3, <1>6
<1>11. lost' = FALSE
  <2>1. ASSUME NEW i \in 1..n, buffer[i].index = buffer[i].end PROVE f + n = e + 1
    <3>1. f + (i - 1) = e
      BY <2>1, <1>8 DEF Counts
    <3> QED BY <3>1, <1>2, <1>6
  <2>2. lost' = /\ ~((TotalLength <= f + n) /\ good)
                /\ ~(good /\ ~(TotalLength <= f + n))
                /\ \E i \in 1..n : buffer[i].index = buffer[i].end
    BY <1>5 DEF Outcome
  <2> QED BY <1>9, <2>2, Zenon
<1>12. CASE f + n = e + 1
  <2>1. gbuffer_fill' = 0 /\ found_header' = FALSE
    BY <1>5, <1>10, <1>12
  <2>2. ~(0 >= 1) /\ (0 >= 2) = FALSE /\ ~(0 >= 5) /\ ~(0 >= 6)
    OBVIOUS
  <2>3. /\ found_header' = (gbuffer_fill' >= 2) /\ gbuffer_fill' \in Nat
        /\ ~(gbuffer_fill' >= 1) /\ ~(gbuffer_fill' >= 5) /\ ~(gbuffer_fill' >= 6)
    BY <2>1, <2>2
  <2>4. length_field' \in [1..2 -> Int] /\ IndexOf(buffer', packet', 1) = gbuffer_fill'
    BY <1>4, <1>5, <1>8, <1>12, <2>1
  <2> QED BY <1>8, <1>11, <2>3, <2>4, Zenon DEF UbxSound
<1>13. CASE f + n # e + 1
  <2>1. f + n <= e /\ f + n \in Nat /\ (f + n >= 2) = TRUE
    BY <1>1, <1>2, <1>6, <1>13
  <2>2. gbuffer_fill' = f + n /\ found_header' = TRUE /\ prefix' = TRUE
    BY <1>5, <1>9, <1>10, <1>13
  <2>3. /\ length_field[1] = (e - 7) % ByteRange
        /\ length_field[2] = (e - 7) \div ByteRange
    <3>1. gbuffer_fill >= 5 /\ gbuffer_fill >= 6
      BY <1>1, <1>2 DEF f
    <3> QED BY <3>1 DEF UbxSound, e
  <2>4. EndOf(buffer', packet', 7, 1) = e /\ IndexOf(buffer', packet', 1) = f + n
    BY <2>1, <1>8
  <2> QED BY <1>4, <1>5, <1>8, <1>11, <2>1, <2>2, <2>3, <2>4 DEF UbxSound
<1> QED BY <1>12, <1>13

\* A parser that has its place never leaves gbuffer_.
LEMMA UbxNoFault ==
    ASSUME UbxSound, busy, gbuffer_fill >= 6
    PROVE  ~Leaves
<1> DEFINE f == gbuffer_fill
           t == TotalLength
           n == RestToTake
<1>1. /\ t = EndOf(buffer, packet, 7, 1) + 1 /\ t <= BufferSize
      /\ f <= EndOf(buffer, packet, 7, 1) /\ f \in Nat
      /\ EndOf(buffer, packet, 7, 1) \in Nat /\ Len(buffer) \in Nat
  BY UbxTotal, UbxFirst DEF UbxSound, Fits
<1>2. n = IF t - f \in 0..Len(buffer) THEN t - f ELSE Len(buffer)
  BY DEF RestToTake
<1>3. BufferSize \in Nat
  BY UbxAssumption
<1>4. Leaves => f + n > BufferSize \/ t < 4
  BY DEF Leaves
<1>5. f >= 6
  OBVIOUS
<1>6. f + n <= t /\ ~(t < 4)
  <2> DEFINE l == Len(buffer)
             e == EndOf(buffer, packet, 7, 1)
  <2>1. t = e + 1 /\ f <= e /\ f \in Nat /\ e \in Nat /\ l \in Nat /\ f >= 6
        /\ n = IF t - f \in 0..l THEN t - f ELSE l
    BY <1>1, <1>2, <1>5
  <2> HIDE DEF f, t, n, l, e
  <2> QED BY <2>1
<1>7. t \in Nat /\ f + n \in Int
  <2> DEFINE l == Len(buffer)
  <2>1. t - f \in Int /\ l \in Nat /\ f \in Nat /\ t \in Nat
    BY <1>1
  <2>2. n = IF t - f \in 0..l THEN t - f ELSE l
    BY <1>2
  <2> HIDE DEF f, t, n, l
  <2> QED BY <2>1, <2>2
<1>8. t <= BufferSize
  BY <1>1
<1> HIDE DEF f, t, n
<1> QED BY <1>3, <1>4, <1>6, <1>7, <1>8

LEMMA UbxPlaceInit ==
    ASSUME UbxInit
    PROVE  UbxSound
<1>1. /\ contents \in ContentSets /\ buffer = << >> /\ busy = FALSE /\ lost = FALSE
      /\ gbuffer_fill = 0 /\ packet.next = 0 /\ found_header = FALSE /\ length_field = <<0, 0>>
      /\ packet \in [length : PayloadLengths, next : {0}]
  BY DEF UbxInit, StreamInit, GbufferInit
<1>2. packet \in [length : PayloadLengths, next : Nat] /\ packet.length \in Nat
  <2>1. packet \in [length : PayloadLengths, next : Nat]
    BY <1>1
  <2>2. packet.length \in PayloadLengths
    BY <2>1
  <2> QED BY <2>1, <2>2, UbxTypes
<1>3. Len(buffer) = 0 /\ ~(1 <= Len(buffer)) /\ buffer \in Seq(UbxBytes)
  BY <1>1
<1>4. IndexOf(buffer, packet, 1) = 0 /\ EndOf(buffer, packet, 7, 1) = packet.length + 7
  BY <1>1, <1>3 DEF IndexOf, EndOf
<1>5. Chain(buffer, packet, 7)
  <2> SUFFICES ASSUME NEW i \in 1..1, NEW j \in i..1
               PROVE  /\ IndexOf(buffer, packet, i) + (j - i) <= EndOf(buffer, packet, 7, i) =>
                            /\ IndexOf(buffer, packet, j) = IndexOf(buffer, packet, i) + (j - i)
                            /\ EndOf(buffer, packet, 7, j) = EndOf(buffer, packet, 7, i)
                      /\ IndexOf(buffer, packet, i) + (j - i) = EndOf(buffer, packet, 7, i) + 1 =>
                            IndexOf(buffer, packet, j) = 0
    BY <1>3 DEF Chain
  <2>1. i = 1 /\ j = 1 /\ j - i = 0
    OBVIOUS
  <2> QED BY <1>2, <1>4, <2>1
<1>6. InStream(buffer, packet, UbxBytes, 7, PayloadLengths)
  BY <1>1, <1>2, <1>3, <1>5 DEF InStream
<1>7. ~(0 >= 1) /\ (0 >= 2) = FALSE /\ ~(0 >= 5) /\ ~(0 >= 6)
  OBVIOUS
<1>8. length_field \in [1..2 -> Int]
  BY <1>1
<1> QED BY <1>1, <1>4, <1>6, <1>7, <1>8 DEF UbxSound

LEMMA UbxPlaceStep ==
    ASSUME UbxPlace, [UbxNext]_ubxVars
    PROVE  UbxPlace'
<1>1. CASE truncated
  <2>1. CASE UNCHANGED ubxVars
    BY <1>1, <2>1 DEF UbxPlace, ubxVars, streamVars, peerVars
  <2>2. CASE ReceiverSends
    BY <1>1, <2>2 DEF UbxPlace, ReceiverSends, SendByte
  <2>3. CASE UbxParse
    <3>1. truncated' = truncated
      BY <2>3 DEF UbxParse, FindSync1, FindSync2, ReadHeader, SkipPacket, TakeRest, Fault, Advance,
                 streamVars, peerVars
    <3> QED BY <1>1, <3>1 DEF UbxPlace
  <2>4. CASE CutShort
    BY <1>1, <2>4 DEF CutShort
  <2>5. CASE ProcessBytes
    BY <1>1, <2>5 DEF UbxPlace, ProcessBytes, peerVars
  <2> QED BY <2>1, <2>2, <2>3, <2>4, <2>5 DEF UbxNext
<1>2. CASE UbxSound
  <2>1. CASE UNCHANGED ubxVars
    <3>1. /\ contents' = contents /\ packet' = packet /\ buffer' = buffer /\ busy' = busy
          /\ prefix' = prefix /\ lost' = lost /\ length_field' = length_field
          /\ gbuffer_fill' = gbuffer_fill /\ found_header' = found_header
      BY <2>1 DEF ubxVars, streamVars, peerVars, gbufferVars
    <3> QED BY <1>2, <3>1 DEF UbxPlace, UbxSound
  <2>2. CASE ReceiverSends
    BY <1>2, <2>2, UbxSends DEF UbxPlace
  <2>3. CASE SkipPacket
    <3>1. busy /\ gbuffer_fill >= 6 /\ ~Fits
      BY <2>3 DEF SkipPacket
    <3> QED BY <1>2, <3>1, UbxTotal
  <2>4. CASE FindSync1 \/ FindSync2 \/ ReadHeader \/ TakeRest
    BY <1>2, <2>4, UbxFinds, UbxFinds2, UbxHeader, UbxRest DEF UbxPlace
  <2>5. CASE CutShort
    BY <2>5 DEF CutShort, UbxPlace
  <2>6. CASE ProcessBytes /\ UNCHANGED gbufferVars
    <3>1. /\ contents' = contents /\ packet' = packet /\ buffer' = buffer /\ busy' = TRUE
          /\ prefix' = prefix /\ lost' = lost /\ length_field' = length_field /\ buffer # << >>
          /\ gbuffer_fill' = gbuffer_fill /\ found_header' = found_header
      BY <2>6 DEF ProcessBytes, peerVars, gbufferVars
    <3> QED BY <1>2, <3>1 DEF UbxPlace, UbxSound
  <2>7. CASE Fault
    <3>1. busy /\ gbuffer_fill >= 6 /\ Leaves
      BY <2>7 DEF Fault
    <3> QED BY <1>2, <3>1, UbxNoFault
  <2> QED BY <2>1, <2>2, <2>3, <2>4, <2>5, <2>6, <2>7 DEF UbxNext, UbxParse
<1> QED BY <1>1, <1>2 DEF UbxPlace

\* ProcessBytes of the u-blox driver hands on every packet of an intact stream,
\* wherever the buffers end and whatever the payloads hold, for all payload
\* lengths with which a packet fits into gbuffer_.
THEOREM UbxKeepsItsPlace == UbxSpec => []NoPacketLost
<1>1. UbxInit => UbxPlace
  BY UbxPlaceInit DEF UbxPlace
<1>2. UbxPlace /\ [UbxNext]_ubxVars => UbxPlace'
  BY UbxPlaceStep
<1>3. UbxPlace => NoPacketLost
  BY DEF UbxPlace, UbxSound, NoPacketLost
<1> QED BY <1>1, <1>2, <1>3, PTL DEF UbxSpec

-----------------------------------------------------------------------------
(* Updates of the cover UI's thread that are preempted (InputPreemption).  *)

PreemptionTypeOK ==
    /\ grouped \in BOOLEAN /\ lift \in BOOLEAN /\ gpio \in BOOLEAN
    /\ lift_pending \in BOOLEAN /\ changed \in BOOLEAN /\ owed \in BOOLEAN
    /\ two \in BOOLEAN /\ multiple \in BOOLEAN
    /\ clock \in Nat /\ now \in Nat /\ lift_since \in Nat /\ updates \in Nat
    /\ count \in 0..255 /\ rc \in 0..255 /\ reg \in 0..255
    /\ step \in {"idle", "stamp", "load", "count", "store", "read", "multiple"}
    /\ poll \in {"no", "main", "service"}

\* The cover UI's thread is in an update that will raise INPUTS_CHANGED and
\* has already set the pending emergency.
PastStamp == step \in {"load", "count", "store", "read", "multiple"}

\* A long press that no poll has reported yet is pending, and a poll is under
\* way, announced to main, or announced by the end of the update under way.
PressOnItsWay == owed => lift_pending /\ (changed \/ poll # "no" \/ PastStamp)

\* num_active_lift_ has not yet followed the exchange of active.
Uncounted == step \in {"stamp", "count"}

\* Without a redundancy group num_active_lift_ is the number of active inputs,
\* up to the change under way.
UngroupedCount ==
    ~grouped =>
        /\ step \notin {"load", "store"}
        /\ count = (IF lift <=> Uncounted THEN 0 ELSE 1) + (IF gpio THEN 1 ELSE 0)

PreemptionInv == PreemptionTypeOK /\ PressOnItsWay /\ UngroupedCount

LEMMA EightBits == \A n \in Int : n % 256 \in 0..255
OBVIOUS

LEMMA CountedRange ==
    ASSUME NEW n \in Int, NEW up \in BOOLEAN
    PROVE  /\ Counted(n, up) \in 0..255
           /\ n \in 0..254 /\ up => Counted(n, up) = n + 1
           /\ n \in 1..255 /\ ~up => Counted(n, up) = n - 1
    BY SMT DEF Counted

LEMMA PreemptionStart == PreemptionInit => PreemptionInv
<1> SUFFICES ASSUME PreemptionInit PROVE PreemptionInv
    OBVIOUS
<1>1. PreemptionTypeOK
    <2>1. /\ grouped \in BOOLEAN /\ lift \in BOOLEAN /\ gpio \in BOOLEAN
          /\ lift_pending \in BOOLEAN /\ changed \in BOOLEAN /\ owed \in BOOLEAN
          /\ two \in BOOLEAN /\ multiple \in BOOLEAN
        BY Zenon DEF PreemptionInit
    <2> QED
        BY <2>1 DEF PreemptionInit, PreemptionTypeOK
<1>2. PressOnItsWay
    BY Zenon DEF PreemptionInit, PressOnItsWay
<1>3. step = "idle" /\ ~lift /\ ~gpio /\ count = 0
    BY Zenon DEF PreemptionInit
<1>4. UngroupedCount
    BY <1>3 DEF UngroupedCount, Uncounted
<1> QED
    BY <1>1, <1>2, <1>4 DEF PreemptionInv

LEMMA PreemptionStep ==
    ASSUME PreemptionInv, [PreemptionNext]_preemptionVars
    PROVE  PreemptionInv'
<1> USE DEF PreemptionInv
<1>0. CASE UNCHANGED preemptionVars
    <2>1. PreemptionTypeOK'
        BY <1>0 DEF preemptionVars, liftVars, countVars, pollVars, PreemptionTypeOK
    <2>2. PressOnItsWay'
        BY <1>0 DEF preemptionVars, liftVars, pollVars, PreemptionTypeOK, PressOnItsWay, PastStamp
    <2>3. UngroupedCount'
        BY <1>0 DEF preemptionVars, liftVars, countVars, UngroupedCount, Uncounted
    <2> QED
        BY <2>1, <2>2, <2>3
<1>1. CASE ClockStep
    <2>1. PreemptionTypeOK'
        BY <1>1 DEF ClockStep, liftVars, countVars, pollVars, PreemptionTypeOK
    <2>2. PressOnItsWay'
        BY <1>1 DEF ClockStep, liftVars, pollVars, PreemptionTypeOK, PressOnItsWay, PastStamp
    <2>3. UngroupedCount'
        BY <1>1 DEF ClockStep, liftVars, countVars, UngroupedCount, Uncounted
    <2> QED
        BY <2>1, <2>2, <2>3
<1>2. CASE Exchange
    <2>0. updates' \in Nat
        BY <1>2 DEF Exchange, PreemptionTypeOK
    <2>1. lift' \in BOOLEAN /\ lift \in BOOLEAN /\ (lift' <=> ~lift)
        BY <1>2, Zenon DEF Exchange, PreemptionTypeOK
    <2>2. /\ step = "idle" /\ step' = "stamp"
          /\ UNCHANGED <<grouped, clock, lift_since, lift_pending, gpio, countVars, reg, two,
                         changed, pollVars, owed>>
        BY <1>2 DEF Exchange
    <2>3. PreemptionTypeOK'
        BY <2>0, <2>1, <2>2 DEF countVars, pollVars, PreemptionTypeOK
    <2>4. PressOnItsWay'
        BY <2>2 DEF pollVars, PressOnItsWay, PastStamp
    <2>5. UngroupedCount'
        BY <2>1, <2>2 DEF countVars, PreemptionTypeOK, UngroupedCount, Uncounted
    <2> QED
        BY <2>3, <2>4, <2>5
<1>3. CASE Stamp
    <2>1. PreemptionTypeOK'
        BY <1>3 DEF Stamp, liftVars, countVars, pollVars, PreemptionTypeOK
    <2>2. PressOnItsWay'
        BY <1>3 DEF Stamp, LongPress, liftVars, pollVars, PreemptionTypeOK, PressOnItsWay, PastStamp
    <2>3. UngroupedCount'
        BY <1>3 DEF Stamp, liftVars, countVars, UngroupedCount, Uncounted
    <2> QED
        BY <2>1, <2>2, <2>3
<1>4. CASE LoadRefcount
    <2>1. PreemptionTypeOK'
        BY <1>4 DEF LoadRefcount, liftVars, countVars, pollVars, PreemptionTypeOK
    <2>2. PressOnItsWay'
        BY <1>4 DEF LoadRefcount, liftVars, pollVars, PreemptionTypeOK, PressOnItsWay, PastStamp
    <2>3. UngroupedCount'
        BY <1>4 DEF LoadRefcount, liftVars, countVars, UngroupedCount, Uncounted
    <2> QED
        BY <2>1, <2>2, <2>3
<1>5. CASE CountLift
    <2>1. Counted(count, lift) \in 0..255
        BY CountedRange DEF PreemptionTypeOK
    <2>2. PreemptionTypeOK' /\ PressOnItsWay'
        BY <1>5, <2>1 DEF CountLift, liftVars, pollVars, PreemptionTypeOK, PressOnItsWay,
                          PastStamp
    <2>3. UngroupedCount'
        BY <1>5, CountedRange DEF CountLift, liftVars, PreemptionTypeOK, UngroupedCount,
                                  Uncounted
    <2> QED
        BY <2>2, <2>3
<1>6. CASE StoreRefcount
    <2>1. Counted(reg, lift) \in 0..255
        BY CountedRange DEF PreemptionTypeOK
    <2>2. /\ step = "store" /\ step' \in {"count", "read"} /\ rc' \in 0..255
          /\ UNCHANGED <<grouped, clock, liftVars, gpio, count, multiple, reg, two, changed,
                         pollVars, owed, updates>>
        BY <1>6, <2>1 DEF StoreRefcount
    <2>3. PreemptionTypeOK'
        BY <2>2 DEF liftVars, pollVars, PreemptionTypeOK
    <2>4. PressOnItsWay'
        BY <2>2 DEF liftVars, pollVars, PressOnItsWay, PastStamp
    <2>5. UngroupedCount'
        BY <2>2 DEF UngroupedCount
    <2> QED
        BY <2>3, <2>4, <2>5
<1>7. CASE ReadCount
    <2>1. PreemptionTypeOK'
        BY <1>7 DEF ReadCount, liftVars, countVars, pollVars, PreemptionTypeOK
    <2>2. PressOnItsWay'
        BY <1>7 DEF ReadCount, liftVars, pollVars, PreemptionTypeOK, PressOnItsWay, PastStamp
    <2>3. UngroupedCount'
        BY <1>7 DEF ReadCount, liftVars, countVars, UngroupedCount, Uncounted
    <2> QED
        BY <2>1, <2>2, <2>3
<1>8. CASE UpdateMultiple
    <2>1. PreemptionTypeOK'
        BY <1>8 DEF UpdateMultiple, liftVars, countVars, pollVars, PreemptionTypeOK
    <2>2. PressOnItsWay'
        BY <1>8 DEF UpdateMultiple, liftVars, pollVars, PreemptionTypeOK, PressOnItsWay, PastStamp
    <2>3. UngroupedCount'
        BY <1>8 DEF UpdateMultiple, liftVars, countVars, UngroupedCount, Uncounted
    <2> QED
        BY <2>1, <2>2, <2>3
<1>9. CASE GpioUpdate
    <2>0. gpio' \in BOOLEAN /\ gpio' = ~gpio /\ gpio \in BOOLEAN
        BY <1>9 DEF GpioUpdate, PreemptionTypeOK
    <2>1. /\ Counted(rc, gpio') \in 0..255
          /\ Counted(count, gpio') \in 0..255
        <3>1. rc + 1 \in Int /\ rc + (-1) \in Int /\ count + 1 \in Int /\ count + (-1) \in Int
            BY DEF PreemptionTypeOK
        <3> DEFINE by == IF gpio' THEN 1 ELSE -1
        <3>2. rc + by \in Int /\ count + by \in Int
            BY <2>0, <3>1
        <3> HIDE DEF by
        <3>3. (rc + by) % 256 \in 0..255 /\ (count + by) % 256 \in 0..255
            BY <3>2, EightBits
        <3> QED
            BY <3>3, Zenon DEF Counted, by
    <2>2. PreemptionTypeOK'
        <3>1. rc' \in 0..255 /\ count' \in 0..255
            BY <1>9, <2>1 DEF GpioUpdate, PreemptionTypeOK
        <3>2. changed' \in BOOLEAN /\ multiple' \in BOOLEAN
            BY <1>9 DEF GpioUpdate
        <3>3. UNCHANGED <<grouped, clock, step, liftVars, reg, two, pollVars, owed, updates>>
            BY <1>9 DEF GpioUpdate
        <3> QED
            BY <2>0, <3>1, <3>2, <3>3 DEF liftVars, pollVars, PreemptionTypeOK
    <2>4. PressOnItsWay'
        BY <1>9 DEF GpioUpdate, liftVars, pollVars, PressOnItsWay, PastStamp
    <2>3. UngroupedCount'
        <3> SUFFICES ASSUME ~grouped PROVE UngroupedCount'
            BY <1>9 DEF GpioUpdate, UngroupedCount
        <3>1. count' = Counted(count, gpio')
            BY <1>9 DEF GpioUpdate
        <3>2. lift' = lift /\ step' = step
            BY <1>9 DEF GpioUpdate, liftVars
        <3> DEFINE own == IF lift <=> Uncounted THEN 0 ELSE 1
        <3>3. own' = own /\ own \in 0..1
            BY <3>2 DEF Uncounted
        <3>4. step \notin {"load", "store"} /\ count = own + (IF gpio THEN 1 ELSE 0)
            BY DEF UngroupedCount
        <3>5. (gpio' <=> ~gpio) /\ grouped' = grouped
            BY <1>9 DEF GpioUpdate
        <3> HIDE DEF own
        <3>6. count' = own' + (IF gpio' THEN 1 ELSE 0)
            <4>1. CASE gpio
                BY <4>1, <3>1, <3>3, <3>4, <3>5 DEF Counted
            <4>2. CASE ~gpio
                BY <4>2, <3>1, <3>3, <3>4, <3>5 DEF Counted
            <4> QED
                BY <4>1, <4>2
        <3> QED
            BY <3>2, <3>4, <3>6 DEF UngroupedCount, own
    <2> QED
        BY <2>2, <2>3, <2>4
<1>10. CASE StartPoll("main") \/ StartPoll("service")
    <2>1. /\ poll' \in {"main", "service"}
          /\ changed' \in BOOLEAN
        BY <1>10 DEF StartPoll, PreemptionTypeOK
    <2>2. /\ now' = clock
          /\ UNCHANGED <<grouped, clock, step, liftVars, gpio, countVars, reg, two, owed, updates>>
        BY <1>10 DEF StartPoll
    <2>3. PreemptionTypeOK'
        BY <2>1, <2>2 DEF liftVars, countVars, PreemptionTypeOK
    <2>4. PressOnItsWay'
        BY <2>1, <2>2 DEF liftVars, PressOnItsWay
    <2>5. UngroupedCount'
        BY <2>2 DEF liftVars, countVars, UngroupedCount, Uncounted
    <2> QED
        BY <2>3, <2>4, <2>5
<1>11. CASE FinishPoll
    <2>1. owed' = FALSE
        BY <1>11, Zenon DEF FinishPoll, PressOnItsWay, PreemptionTypeOK
    <2>2. /\ poll' = "no" /\ lift_pending' = FALSE
          /\ UNCHANGED <<grouped, clock, step, lift, lift_since, gpio, countVars, reg, two,
                         changed, now, updates>>
        BY <1>11 DEF FinishPoll
    <2>3. PreemptionTypeOK'
        BY <2>1, <2>2 DEF countVars, PreemptionTypeOK
    <2>4. PressOnItsWay'
        BY <2>1 DEF PressOnItsWay
    <2>5. UngroupedCount'
        BY <2>2 DEF countVars, UngroupedCount, Uncounted
    <2> QED
        BY <2>3, <2>4, <2>5
<1> QED
    BY <1>0, <1>1, <1>2, <1>3, <1>4, <1>5, <1>6, <1>7, <1>8, <1>9, <1>10, <1>11
       DEF PreemptionNext, CoverUiThread

LEMMA PreemptionInvariant == PreemptionSpec => []PreemptionInv
<1> QED
    BY PreemptionStart, PreemptionStep, PTL DEF PreemptionSpec

\* Wherever a poll hits the steps of Input::Update, a press that lasted its
\* delay stays pending until a poll reports it, and that poll is under way or
\* announced: the safety part of LongPressReported.
THEOREM LongPressIsKept == PreemptionSpec => []PressOnItsWay
    BY PreemptionInvariant, PTL DEF PreemptionInv

\* The atomic num_active_lift_ survives every preemption: without a redundancy
\* group, whose refcount is not atomic, OnInputChanged counts exactly.
THEOREM UngroupedCountExact == PreemptionSpec => []UngroupedCount
    BY PreemptionInvariant, PTL DEF PreemptionInv
=============================================================================
