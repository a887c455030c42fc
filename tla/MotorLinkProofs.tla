--------------------------- MODULE MotorLinkProofs ---------------------------
(***************************************************************************)
(* Proofs about both directions of the link between a motor service and    *)
(* its ESCs: EscCommand, for any duties and any number of debug sessions,  *)
(* and DriveStatus, for any positions and any width of the tachometer.     *)
(***************************************************************************)
EXTENDS EscCommand, DriveStatus, TLAPS

-----------------------------------------------------------------------------
(***************************************************************************)
(* The duties sent.                                                        *)
(***************************************************************************)

EscTypeOK ==
  /\ yfr4 \in BOOLEAN
  /\ want \in Duties /\ last \in Duties /\ hbDuty \in Duties
  /\ svc \in {"idle", "check", "send", "sending"}
  /\ hb \in {"wait", "send", "sending"}
  /\ mutex \in {"free", "svc", "hb", "raw", "rx"}
  /\ raw \in BOOLEAN
  /\ sock \in {"none", "open", "closed", "reset"}
  /\ sess \in {"accept", "on", "read", "input", "sending", "off"}
  /\ rx \in {"idle", "writing"}
  /\ esc \in Duties /\ accepted \in Duties
  /\ stale \in 0..2
  /\ sessions \in 0..MaxSessions

\* Whoever is inside a critical section of mutex_ owns it.
MutexInv ==
  /\ svc = "sending" <=> mutex = "svc"
  /\ hb = "sending" <=> mutex = "hb"
  /\ sess = "sending" <=> mutex = "raw"
  /\ rx = "writing" <=> mutex = "rx"

\* last_duty_ follows the duty that was not ignored (YFR4); a heartbeat on its
\* way with another duty read it before the SetDuty that changed it, so none
\* has been sent since.  The VESC driver has no heartbeat.
HeartbeatInv ==
  /\ yfr4 => last = accepted
  /\ ~yfr4 => hb = "wait"
  /\ hb # "wait" /\ hbDuty # accepted => stale = 0
  /\ stale <= 1

EscInv == EscTypeOK /\ MutexInv /\ HeartbeatInv

\* The drivers start with nothing sent and no client.
LEMMA EscInitInv == EscInit => EscInv
<1> SUFFICES ASSUME EscInit PROVE EscInv
    OBVIOUS
<1>1. EscTypeOK
    <2>1. yfr4 \in BOOLEAN /\ raw \in BOOLEAN
        BY Zenon DEF EscInit
    <2>2. 0 \in Duties /\ 0 \in 0..2 /\ 0 \in 0..MaxSessions
        BY EscConstants
    <2> QED
        BY <2>1, <2>2, Zenon DEF EscInit, EscTypeOK
<1>2. MutexInv
    BY DEF EscInit, MutexInv
<1>3. HeartbeatInv
    BY DEF EscInit, HeartbeatInv
<1> QED
    BY <1>1, <1>2, <1>3 DEF EscInv

\* Every step of the four threads and of the client keeps the invariant.
LEMMA EscStep == EscInv /\ [EscNext]_escVars => EscInv'
<1> SUFFICES ASSUME EscInv, [EscNext]_escVars PROVE EscInv'
    OBVIOUS
<1> USE EscConstants DEF EscInv, EscTypeOK, MutexInv, HeartbeatInv, svcVars, hbVars, history
<1>1. ASSUME NEW d \in Duties, Command(d) PROVE EscInv'
    BY <1>1 DEF Command
<1>2. CASE SetDuty
    BY <1>2 DEF SetDuty, SetDutyIgnored, LastDuty
<1>3. CASE Send
    BY <1>3 DEF Send, Lock
<1>4. CASE Sent
    BY <1>4 DEF Sent, Unlock
<1>5. CASE Heartbeat
    BY <1>5 DEF Heartbeat
<1>6. CASE HeartbeatSend
    BY <1>6 DEF HeartbeatSend, Lock
<1>7. CASE HeartbeatSent
    BY <1>7 DEF HeartbeatSent, Unlock
<1>8. CASE RawAccessOn
    BY <1>8 DEF RawAccessOn
<1>9. CASE Read
    BY <1>9 DEF Read, ReadEnds
<1>10. CASE RawDataInput
    BY <1>10 DEF RawDataInput, Lock
<1>11. CASE RawDataSent
    BY <1>11 DEF RawDataSent, Unlock
<1>12. CASE RawAccessOff
    BY <1>12 DEF RawAccessOff
<1>13. CASE Accept
    BY <1>13 DEF Accept
<1>14. CASE ClientLeaves
    BY <1>14 DEF ClientLeaves
<1>15. CASE RawDataOutput
    BY <1>15 DEF RawDataOutput, Lock
<1>16. CASE RawDataWritten
    BY <1>16 DEF RawDataWritten, Unlock
<1>17. CASE UNCHANGED escVars
    BY <1>17 DEF escVars
<1> QED
    BY <1>1, <1>2, <1>3, <1>4, <1>5, <1>6, <1>7, <1>8, <1>9, <1>10, <1>11, <1>12, <1>13,
       <1>14, <1>15, <1>16, <1>17
    DEF EscNext, Service, HeartbeatThread, DebugThread

(***************************************************************************)
(* SetDuty, the heartbeat and the debug access of both drivers: mutex_ is  *)
(* held by the one thread in a critical section, and a heartbeat that      *)
(* overtakes a SetDuty is the first since it.                              *)
(***************************************************************************)
THEOREM EscInvariant == EscSpec => []EscInv
<1> QED
    BY EscInitInv, EscStep, PTL DEF EscSpec

(***************************************************************************)
(* At most one packet with an old duty reaches the ESC after a SetDuty     *)
(* (the heartbeat of the YFR4 driver reads last_duty_ without the mutex).  *)
(***************************************************************************)
THEOREM OneStalePacket == EscSpec => []AtMostOneStalePacket
<1>1. EscInv => AtMostOneStalePacket
    BY DEF EscInv, HeartbeatInv, AtMostOneStalePacket
<1> QED
    BY <1>1, EscInvariant, PTL

-----------------------------------------------------------------------------
(***************************************************************************)
(* The reports received.                                                   *)
(***************************************************************************)

\* The signed difference of two tachometer readings is the distance, when the
\* wheel has moved less than half the range.
LEMMA TicksExact ==
    ASSUME NEW p \in Positions, NEW q \in Positions
    PROVE  Ticks(Tacho(p), Tacho(q)) = p - q
<1> DEFINE half == Wrap \div 2
           a == p \div Wrap
           b == q \div Wrap
           d == (Tacho(p) - Tacho(q)) % Wrap
<1>1. /\ p \in Int /\ q \in Int /\ Wrap \in Nat /\ Wrap > 0
      /\ half \in Int /\ Wrap = 2 * half
      /\ p - q < half /\ q - p < half
    BY DriveAssumption
<1>2. /\ a \in Int /\ b \in Int
      /\ p = Wrap * a + Tacho(p) /\ Tacho(p) \in 0..(Wrap - 1)
      /\ q = Wrap * b + Tacho(q) /\ Tacho(q) \in 0..(Wrap - 1)
    BY <1>1 DEF Tacho
<1> DEFINE x == Tacho(p) - Tacho(q)
           k == a - b
<1>3. x \in Int /\ -Wrap < x /\ x < Wrap /\ k \in Int
    BY <1>1, <1>2
<1>4. p - q = Wrap * k + x
    <2>1. Wrap * (a - b) = Wrap * a - Wrap * b
        BY <1>1, <1>2
    <2> QED
        BY <1>1, <1>2, <2>1
<1>5. k \in {-1, 0, 1}
    <2> HIDE DEF x, k
    <2>1. k >= 2 => Wrap * k >= 2 * Wrap
        BY <1>1, <1>3
    <2>2. k <= -2 => Wrap * k <= -2 * Wrap
        BY <1>1, <1>3
    <2> QED
        BY <1>1, <1>3, <1>4, <2>1, <2>2
<1>6. d = IF x >= 0 THEN x ELSE x + Wrap
    BY <1>1, <1>3
<1>7. p - q = x \/ p - q = x + Wrap \/ p - q = x - Wrap
    BY <1>1, <1>3, <1>4, <1>5
<1>8. Ticks(Tacho(p), Tacho(q)) = IF d < half THEN d ELSE d - Wrap
    BY DEF Ticks
<1> HIDE DEF x, k, d, half
<1> QED
    BY <1>1, <1>3, <1>6, <1>7, <1>8

StatusTypeOK ==
    /\ position \in [Sides -> Positions]
    /\ measured \in [Sides -> Positions]
    /\ esc_state_valid \in [Sides -> BOOLEAN]
    /\ escs_connected \in SUBSET Sides

\* An ESC that counts as connected waits with its report for the other one,
\* unless a pair has been processed since the service stopped.
PairInv ==
    /\ \A s \in escs_connected : esc_state_valid[s] \/ paired
    /\ escs_connected = Sides => paired

\* Ticks to compare with are those of a pair of this session.
TicksInv ==
    last_ticks_valid =>
        /\ base # None
        /\ \A s \in Sides : base[s] \in Positions /\ last_ticks[s] = Tacho(base[s])

StatusInv == StatusTypeOK /\ PairInv /\ TicksInv

\* Nothing is connected, valid or paired at first.
LEMMA StatusInitInv == StatusInit => StatusInv
BY DEF StatusInit, StatusInv, StatusTypeOK, PairInv, TicksInv, Sides

\* Every callback, tick, start, stop and change of the ESCs keeps the invariant.
LEMMA StatusStep == StatusInv /\ [StatusNext]_statusVars => StatusInv'
<1> SUFFICES ASSUME StatusInv, [StatusNext]_statusVars PROVE StatusInv'
    OBVIOUS
<1> USE DEF StatusInv, wheelVars
<1>1. ASSUME NEW s \in Sides, ESCCallback(s) PROVE StatusInv'
    <2>1. StatusTypeOK'
        BY <1>1 DEF ESCCallback, ProcessStatusUpdate, StatusTypeOK, ValidAfterPair
    <2>2. CASE esc_state_valid[Other(s)]
        <3>1. ProcessStatusUpdate(measured') /\ measured' \in [Sides -> Positions]
            BY <1>1, <2>1, <2>2 DEF ESCCallback, StatusTypeOK
        <3>2. PairInv'
            BY <3>1 DEF ProcessStatusUpdate, PairInv
        <3>3. measured' # None
            BY <3>1 DEF None, Sides
        <3>4. TicksInv'
            BY <3>1, <3>3 DEF ProcessStatusUpdate, TicksInv
        <3> QED
            BY <2>1, <3>2, <3>4
    <2>3. CASE ~esc_state_valid[Other(s)]
        <3>1. /\ escs_connected' = escs_connected \cup {s}
              /\ esc_state_valid' = [esc_state_valid EXCEPT ![s] = TRUE]
              /\ UNCHANGED wheelVars
            BY <1>1, <2>3 DEF ESCCallback
        <3>2. PairInv'
            BY <2>3, <3>1 DEF PairInv, StatusTypeOK, Sides, Other
        <3>3. TicksInv'
            BY <3>1 DEF TicksInv
        <3> QED
            BY <2>1, <3>2, <3>3
    <2> QED
        BY <2>2, <2>3
<1>2. CASE tick
    BY <1>2 DEF tick, StatusTypeOK, PairInv, TicksInv
<1>3. CASE OnStart
    BY <1>3 DEF OnStart, TicksValidAtStart, StatusTypeOK, PairInv, TicksInv
<1>4. CASE OnStop
    BY <1>4 DEF OnStop, ConnectedAfterStop, StatusTypeOK, PairInv, TicksInv, Sides
<1>5. CASE Roll
    BY <1>5 DEF Roll, StatusTypeOK, PairInv, TicksInv
<1>6. CASE EscFallsSilentOrReturns
    BY <1>6 DEF EscFallsSilentOrReturns, StatusTypeOK, PairInv, TicksInv
<1>7. CASE SecondPasses
    BY <1>7 DEF SecondPasses, StatusTypeOK, PairInv, TicksInv
<1>8. CASE MicrosWrap
    BY <1>8 DEF MicrosWrap, StatusTypeOK, PairInv, TicksInv
<1>9. CASE UNCHANGED statusVars
    BY <1>9 DEF statusVars, StatusTypeOK, PairInv, TicksInv
<1> QED
    BY <1>1, <1>2, <1>3, <1>4, <1>5, <1>6, <1>7, <1>8, <1>9 DEF StatusNext

(***************************************************************************)
(* The ESC callbacks, OnStart and OnStop of DiffDriveService keep the      *)
(* connected ESCs, the waiting reports and the last pair's ticks in step.  *)
(***************************************************************************)
THEOREM StatusInvariant == StatusSpec => []StatusInv
<1> QED
    BY StatusInitInv, StatusStep, PTL DEF StatusSpec

(***************************************************************************)
(* IsHealthy of DiffDriveService: the host has been sent the status of     *)
(* both ESCs since the service last stopped.                               *)
(***************************************************************************)
THEOREM HealthIsBacked == StatusSpec => []HealthyHasStatus
<1>1. StatusInv => HealthyHasStatus
    BY DEF StatusInv, PairInv, HealthyHasStatus, IsHealthy
<1> QED
    BY <1>1, StatusInvariant, PTL

\* A twist is computed in ProcessStatusUpdate only.
LEMMA TwistStep ==
    ASSUME StatusInv, [StatusNext]_statusVars, twist' # None, ~UNCHANGED statusVars
    PROVE  base # None /\ \A s \in Sides : twist'[s] = measured'[s] - base[s]
<1>1. PICK e \in Sides : ESCCallback(e) /\ esc_state_valid[Other(e)]
    BY DEF StatusNext, ESCCallback, tick, OnStart, OnStop, Roll, EscFallsSilentOrReturns,
           SecondPasses, MicrosWrap
<1>2. ProcessStatusUpdate(measured') /\ measured' \in [Sides -> Positions]
    BY <1>1 DEF ESCCallback, StatusInv, StatusTypeOK
<1>3. /\ last_ticks_valid
      /\ twist' = [s \in Sides |-> Ticks(Tacho(measured'[s]), last_ticks[s])]
    BY <1>2 DEF ProcessStatusUpdate
<1>4. base # None /\ \A s \in Sides : base[s] \in Positions /\ last_ticks[s] = Tacho(base[s])
    BY <1>3 DEF StatusInv, TicksInv
<1>5. ASSUME NEW s \in Sides PROVE twist'[s] = measured'[s] - base[s]
    <2>1. twist'[s] = Ticks(Tacho(measured'[s]), Tacho(base[s]))
        BY <1>3, <1>4
    <2> QED
        BY <1>2, <1>4, <2>1, TicksExact
<1> QED
    BY <1>4, <1>5

(***************************************************************************)
(* ProcessStatusUpdate: a twist is exactly what the wheels have moved      *)
(* since the last pair of the running session, over the wrap of the        *)
(* tachometers and backwards too.                                          *)
(***************************************************************************)
THEOREM TwistCorrect == StatusSpec => TwistExact
<1>1. StatusInv /\ [StatusNext]_statusVars =>
        [twist' # None =>
            base # None /\ \A s \in Sides : twist'[s] = measured'[s] - base[s]]_statusVars
    BY TwistStep
<1> QED
    BY <1>1, StatusInvariant, PTL DEF StatusSpec, TwistExact
=============================================================================
