------------------------- MODULE EmergencyStopProofs -------------------------
(***************************************************************************)
(* An emergency that has been delivered to a motor service keeps the       *)
(* service's ESCs stopped: proved for any number of services and ESCs, any *)
(* duties and any reasons.                                                 *)
(*                                                                         *)
(* StoppedWhenDelivered is not inductive.  SetDuty reads the reasons and   *)
(* sends later, so a sender with an old answer must be known to be gone    *)
(* once the change is delivered (NoStaleSetDuty); it is, because it held   *)
(* the service's mutex and main waited for it (LockInv), and main leaves   *)
(* zeros behind (MainSendsZero).                                           *)
(***************************************************************************)
EXTENDS EmergencyStop, TLAPS

\* The state in which StartServices leaves the services has the right types.
LEMMA InitType ==
    ASSUME Init PROVE TypeOK
BY ConstantsAssumption DEF Init, TypeOK, Reasons, Updaters, NONE

\* Every step of the specification keeps every variable in its type.
LEMMA TypeStep ==
    ASSUME TypeOK, [Next]_vars PROVE TypeOK'
<1> USE ConstantsAssumption
<1> USE DEF TypeOK, emergencyVars, mainVars, lifeVars, setDutyVars, MotorsOf
<1>1. ASSUME NEW add \in SUBSET MotionReasons, EmergencyUpdate(add) PROVE TypeOK'
    BY <1>1 DEF EmergencyUpdate, UpdateEmergency, Reasons, Updaters
<1>2. ASSUME NEW h \in BOOLEAN, CheckRequiredServices(h) PROVE TypeOK'
    BY <1>2 DEF CheckRequiredServices, UpdateEmergency, Reasons, Updaters
<1>3. ASSUME StatusSchedule PROVE TypeOK'
    BY <1>3 DEF StatusSchedule, Updaters
<1>4. ASSUME NEW u \in Updaters, BroadcastChange(u) PROVE TypeOK'
    BY <1>4 DEF BroadcastChange, Updaters
<1>5. ASSUME NEW u \in Updaters, SendStatusLock(u) PROVE TypeOK'
    BY <1>5 DEF SendStatusLock, Updaters, NONE
<1>6. ASSUME NEW u \in Updaters, SendStatusUnlock(u) PROVE TypeOK'
    BY <1>6 DEF SendStatusUnlock, Updaters, NONE
<1>7. ASSUME NEW s \in Services, SetDutyRead(s) PROVE TypeOK'
    BY <1>7 DEF SetDutyRead
<1>8. ASSUME NEW s \in Services, NEW m \in Motors, SetDutySend(s, m) PROVE TypeOK'
    BY <1>8 DEF SetDutySend, IsFirst
<1>9. ASSUME NEW s \in Services, SetDutyDone(s) PROVE TypeOK'
    BY <1>9 DEF SetDutyDone
<1>10. ASSUME NEW s \in Services, TickBegin(s) PROVE TypeOK'
    BY <1>10 DEF TickBegin, EnterHandler, ZeroCommand, WithCommand
<1>11. ASSUME NEW s \in Services, NEW r \in BOOLEAN, TickEnd(s, r) PROVE TypeOK'
    BY <1>11 DEF TickEnd, ZeroCommand, WithCommand, NONE
<1>12. ASSUME NEW s \in Services, NEW speeds \in [MotorsOf(s) -> Duties], CommandBegin(s, speeds) PROVE TypeOK'
    BY <1>12 DEF CommandBegin, EnterHandler, WithCommand
<1>13. ASSUME NEW s \in Services, CommandEnd(s) PROVE TypeOK'
    BY <1>13 DEF CommandEnd, NONE
<1>14. ASSUME NEW s \in Services, CommandExpires(s) PROVE TypeOK'
    BY <1>14 DEF CommandExpires
<1>15. ASSUME NEW s \in Services, OnStart(s) PROVE TypeOK'
    BY <1>15 DEF OnStart, ZeroCommand, WithCommand
<1>16. ASSUME NEW s \in Services, OnStop(s) PROVE TypeOK'
    BY <1>16 DEF OnStop, ZeroCommand, WithCommand
<1>17. ASSUME NEW m \in Motors, ESCCallback(m) PROVE TypeOK'
    BY <1>17 DEF ESCCallback
<1>18. ASSUME InputsChanged PROVE TypeOK'
    BY <1>18 DEF InputsChanged
<1>19. ASSUME GetAndClearFlags PROVE TypeOK'
    BY <1>19 DEF GetAndClearFlags
<1>20. ASSUME NEW s \in Services, OnEmergencyChangedEvent(s) PROVE TypeOK'
    BY <1>20 DEF OnEmergencyChangedEvent, IsFirst
<1>21. ASSUME NEW s \in Services, EmergencyLock(s) PROVE TypeOK'
    BY <1>21 DEF EmergencyLock, ZeroCommand, WithCommand, IsFirst
<1>22. ASSUME NEW s \in Services, EmergencyUnlock(s) PROVE TypeOK'
    BY <1>22 DEF EmergencyUnlock, IsFirst, NONE
<1>23. ASSUME NEW add \in SUBSET MotionReasons, MainCheckInputs(add) PROVE TypeOK'
    BY <1>23 DEF MainCheckInputs, UpdateEmergency, Reasons, Updaters
<1>24. ASSUME DispatchDone PROVE TypeOK'
    BY <1>24 DEF DispatchDone
<1>25. CASE UNCHANGED vars
    BY <1>25 DEF vars
<1> QED
    BY <1>1, <1>2, <1>3, <1>4, <1>5, <1>6, <1>7, <1>8, <1>9, <1>10, <1>11,
       <1>12, <1>13, <1>14, <1>15, <1>16, <1>17, <1>18, <1>19, <1>20, <1>21,
       <1>22, <1>23, <1>24, <1>25
    DEF Next, EmergencyCall, UpdaterStep, ServiceCall, HandlerStep, MainStep

\* A change of the reasons is announced by whoever made it.
LEMMA UpdateAnnounced ==
    ASSUME TypeOK, NEW u \in Updaters, NEW add, NEW clear, UpdateEmergency(u, add, clear)
    PROVE  UNCHANGED emergencyVars \/ updating'[u] = "broadcast"
<1>1. CASE (reasons \ clear) \cup add = reasons
    BY <1>1 DEF UpdateEmergency, emergencyVars
<1>2. CASE (reasons \ clear) \cup add # reasons
    BY <1>2 DEF UpdateEmergency, TypeOK
<1> QED
    BY <1>1, <1>2

\* Main visits one service at a time.
LEMMA FirstUnique ==
    ASSUME NEW S \in SUBSET Services, NEW x, NEW y, IsFirst(x, S), IsFirst(y, S)
    PROVE  x = y
<1>1. x \in Services /\ y \in Services /\ Rank[x] \in Nat /\ Rank[y] \in Nat
    BY ConstantsAssumption DEF IsFirst
<1>2. Rank[x] = Rank[y]
    BY <1>1 DEF IsFirst
<1> QED
    BY <1>1, <1>2, ConstantsAssumption

\* A step keeps the locking discipline of the services' mutexes.
LEMMA LockStep ==
    ASSUME TypeOK, LockInv, [Next]_vars PROVE LockInv'
<1> USE ConstantsAssumption
<1> USE DEF LockInv, TypeOK, NONE, MotorsOf, emergencyVars, mainVars, lifeVars, setDutyVars
<1>1. ASSUME NEW add \in SUBSET MotionReasons, EmergencyUpdate(add) PROVE LockInv'
    BY <1>1 DEF EmergencyUpdate, UpdateEmergency, IsFirst
<1>2. ASSUME NEW h \in BOOLEAN, CheckRequiredServices(h) PROVE LockInv'
    BY <1>2 DEF CheckRequiredServices, UpdateEmergency, IsFirst
<1>3. ASSUME StatusSchedule PROVE LockInv'
    BY <1>3 DEF StatusSchedule, IsFirst
<1>4. ASSUME NEW u \in Updaters, BroadcastChange(u) PROVE LockInv'
    BY <1>4 DEF BroadcastChange, IsFirst
<1>5. ASSUME NEW u \in Updaters, SendStatusLock(u) PROVE LockInv'
    BY <1>5 DEF SendStatusLock, IsFirst
<1>6. ASSUME NEW u \in Updaters, SendStatusUnlock(u) PROVE LockInv'
    BY <1>6 DEF SendStatusUnlock, IsFirst
<1>7. ASSUME NEW s \in Services, SetDutyRead(s) PROVE LockInv'
    BY <1>7 DEF SetDutyRead, IsFirst
<1>8. ASSUME NEW s \in Services, NEW m \in Motors, SetDutySend(s, m) PROVE LockInv'
    BY <1>8 DEF SetDutySend, IsFirst
<1>9. ASSUME NEW s \in Services, SetDutyDone(s) PROVE LockInv'
    BY <1>9 DEF SetDutyDone, IsFirst
<1>10. ASSUME NEW s \in Services, TickBegin(s) PROVE LockInv'
    BY <1>10 DEF TickBegin, EnterHandler, ZeroCommand, WithCommand, IsFirst
<1>11. ASSUME NEW s \in Services, NEW r \in BOOLEAN, TickEnd(s, r) PROVE LockInv'
    BY <1>11 DEF TickEnd, ZeroCommand, WithCommand, IsFirst
<1>12. ASSUME NEW s \in Services, NEW speeds \in [MotorsOf(s) -> Duties], CommandBegin(s, speeds) PROVE LockInv'
    BY <1>12 DEF CommandBegin, EnterHandler, WithCommand, IsFirst
<1>13. ASSUME NEW s \in Services, CommandEnd(s) PROVE LockInv'
    BY <1>13 DEF CommandEnd, IsFirst
<1>14. ASSUME NEW s \in Services, CommandExpires(s) PROVE LockInv'
    BY <1>14 DEF CommandExpires, IsFirst
<1>15. ASSUME NEW s \in Services, OnStart(s) PROVE LockInv'
    BY <1>15 DEF OnStart, ZeroCommand, WithCommand, IsFirst
<1>16. ASSUME NEW s \in Services, OnStop(s) PROVE LockInv'
    BY <1>16 DEF OnStop, ZeroCommand, WithCommand, IsFirst
<1>17. ASSUME NEW m \in Motors, ESCCallback(m) PROVE LockInv'
    BY <1>17 DEF ESCCallback, IsFirst
<1>18. ASSUME InputsChanged PROVE LockInv'
    BY <1>18 DEF InputsChanged, IsFirst
<1>19. ASSUME GetAndClearFlags PROVE LockInv'
    BY <1>19 DEF GetAndClearFlags, IsFirst
<1>20. ASSUME NEW s \in Services, OnEmergencyChangedEvent(s) PROVE LockInv'
    BY <1>20 DEF OnEmergencyChangedEvent, IsFirst
<1>21. ASSUME NEW s \in Services, EmergencyLock(s) PROVE LockInv'
    <2>1. \A t \in Services : IsFirst(t, todo) <=> t = s
        BY <1>21, FirstUnique DEF EmergencyLock
    <2>2. \A t \in Services : IsFirst(t, todo)' <=> t = s
        BY <1>21, <2>1 DEF EmergencyLock, IsFirst
    <2> QED
        BY <1>21, <2>1, <2>2 DEF EmergencyLock
<1>22. ASSUME NEW s \in Services, EmergencyUnlock(s) PROVE LockInv'
    <2>1. \A t \in Services : IsFirst(t, todo) <=> t = s
        BY <1>22, FirstUnique DEF EmergencyUnlock
    <2> QED
        BY <1>22, <2>1 DEF EmergencyUnlock
<1>23. ASSUME NEW add \in SUBSET MotionReasons, MainCheckInputs(add) PROVE LockInv'
    BY <1>23 DEF MainCheckInputs, UpdateEmergency, IsFirst
<1>24. ASSUME DispatchDone PROVE LockInv'
    BY <1>24 DEF DispatchDone, IsFirst
<1>25. CASE UNCHANGED vars
    BY <1>25 DEF vars
<1> HIDE DEF LockInv, TypeOK, NONE, MotorsOf, emergencyVars, mainVars, lifeVars, setDutyVars
<1> QED
    BY <1>1, <1>2, <1>3, <1>4, <1>5, <1>6, <1>7, <1>8, <1>9, <1>10, <1>11,
       <1>12, <1>13, <1>14, <1>15, <1>16, <1>17, <1>18, <1>19, <1>20, <1>21,
       <1>22, <1>23, <1>24, <1>25
    DEF Next, EmergencyCall, UpdaterStep, ServiceCall, HandlerStep, MainStep

\* What main sends under a service's mutex is zero: only the service's own
\* thread, which needs the same mutex, sets a command.
LEMMA MainSendsZeroStep ==
    ASSUME TypeOK, LockInv, MainSendsZero, [Next]_vars PROVE MainSendsZero'
<1> USE ConstantsAssumption
<1> USE DEF MainSendsZero, LockInv, TypeOK, NONE, MotorsOf, emergencyVars, mainVars, lifeVars, setDutyVars
<1>1. ASSUME NEW add \in SUBSET MotionReasons, EmergencyUpdate(add) PROVE MainSendsZero'
    BY <1>1 DEF EmergencyUpdate, UpdateEmergency
<1>2. ASSUME NEW h \in BOOLEAN, CheckRequiredServices(h) PROVE MainSendsZero'
    BY <1>2 DEF CheckRequiredServices, UpdateEmergency
<1>3. ASSUME StatusSchedule PROVE MainSendsZero'
    BY <1>3 DEF StatusSchedule
<1>4. ASSUME NEW u \in Updaters, BroadcastChange(u) PROVE MainSendsZero'
    BY <1>4 DEF BroadcastChange
<1>5. ASSUME NEW u \in Updaters, SendStatusLock(u) PROVE MainSendsZero'
    BY <1>5 DEF SendStatusLock
<1>6. ASSUME NEW u \in Updaters, SendStatusUnlock(u) PROVE MainSendsZero'
    BY <1>6 DEF SendStatusUnlock
<1>7. ASSUME NEW s \in Services, SetDutyRead(s) PROVE MainSendsZero'
    BY <1>7 DEF SetDutyRead
<1>8. ASSUME NEW s \in Services, NEW m \in Motors, SetDutySend(s, m) PROVE MainSendsZero'
    BY <1>8 DEF SetDutySend, IsFirst
<1>9. ASSUME NEW s \in Services, SetDutyDone(s) PROVE MainSendsZero'
    BY <1>9 DEF SetDutyDone
<1>10. ASSUME NEW s \in Services, TickBegin(s) PROVE MainSendsZero'
    BY <1>10 DEF TickBegin, EnterHandler, ZeroCommand, WithCommand
<1>11. ASSUME NEW s \in Services, NEW r \in BOOLEAN, TickEnd(s, r) PROVE MainSendsZero'
    BY <1>11 DEF TickEnd, ZeroCommand, WithCommand
<1>12. ASSUME NEW s \in Services, NEW speeds \in [MotorsOf(s) -> Duties], CommandBegin(s, speeds) PROVE MainSendsZero'
    BY <1>12 DEF CommandBegin, EnterHandler, WithCommand
<1>13. ASSUME NEW s \in Services, CommandEnd(s) PROVE MainSendsZero'
    BY <1>13 DEF CommandEnd
<1>14. ASSUME NEW s \in Services, CommandExpires(s) PROVE MainSendsZero'
    BY <1>14 DEF CommandExpires
<1>15. ASSUME NEW s \in Services, OnStart(s) PROVE MainSendsZero'
    BY <1>15 DEF OnStart, ZeroCommand, WithCommand
<1>16. ASSUME NEW s \in Services, OnStop(s) PROVE MainSendsZero'
    BY <1>16 DEF OnStop, ZeroCommand, WithCommand
<1>17. ASSUME NEW m \in Motors, ESCCallback(m) PROVE MainSendsZero'
    BY <1>17 DEF ESCCallback
<1>18. ASSUME InputsChanged PROVE MainSendsZero'
    BY <1>18 DEF InputsChanged
<1>19. ASSUME GetAndClearFlags PROVE MainSendsZero'
    BY <1>19 DEF GetAndClearFlags
<1>20. ASSUME NEW s \in Services, OnEmergencyChangedEvent(s) PROVE MainSendsZero'
    BY <1>20 DEF OnEmergencyChangedEvent, IsFirst
<1>21. ASSUME NEW s \in Services, EmergencyLock(s) PROVE MainSendsZero'
    BY <1>21 DEF EmergencyLock, ZeroCommand, WithCommand, IsFirst
<1>22. ASSUME NEW s \in Services, EmergencyUnlock(s) PROVE MainSendsZero'
    BY <1>22 DEF EmergencyUnlock, IsFirst
<1>23. ASSUME NEW add \in SUBSET MotionReasons, MainCheckInputs(add) PROVE MainSendsZero'
    BY <1>23 DEF MainCheckInputs, UpdateEmergency
<1>24. ASSUME DispatchDone PROVE MainSendsZero'
    BY <1>24 DEF DispatchDone
<1>25. CASE UNCHANGED vars
    BY <1>25 DEF vars
<1> HIDE DEF MainSendsZero, LockInv, TypeOK, NONE, MotorsOf, emergencyVars, mainVars, lifeVars, setDutyVars
<1> QED
    BY <1>1, <1>2, <1>3, <1>4, <1>5, <1>6, <1>7, <1>8, <1>9, <1>10, <1>11,
       <1>12, <1>13, <1>14, <1>15, <1>16, <1>17, <1>18, <1>19, <1>20, <1>21,
       <1>22, <1>23, <1>24, <1>25
    DEF Next, EmergencyCall, UpdaterStep, ServiceCall, HandlerStep, MainStep

\* main cannot finish with a service while a SetDuty of its own thread is
\* sending, so a delivered emergency leaves no sender with an older answer.
LEMMA NoStaleSetDutyStep ==
    ASSUME TypeOK, LockInv, NoStaleSetDuty, [Next]_vars PROVE NoStaleSetDuty'
<1> USE ConstantsAssumption
<1> USE DEF NoStaleSetDuty, Undelivered, LockInv, TypeOK, NONE, emergencyVars, mainVars, lifeVars, setDutyVars
<1>1. ASSUME NEW add \in SUBSET MotionReasons, EmergencyUpdate(add) PROVE NoStaleSetDuty'
    <2>1. UpdateEmergency("emergency", add, MotionReasons) /\ UNCHANGED <<emergency_changed, todo, setDutyVars>>
        BY <1>1 DEF EmergencyUpdate
    <2>2. UNCHANGED emergencyVars \/ updating'["emergency"] = "broadcast"
        BY <2>1, UpdateAnnounced DEF Updaters
    <2> QED
        BY <2>1, <2>2 DEF Updaters
<1>2. ASSUME NEW h \in BOOLEAN, CheckRequiredServices(h) PROVE NoStaleSetDuty'
    <2> DEFINE ready == h /\ \A s \in Services : IsHealthy(s)
    <2>1. /\ UpdateEmergency("emergency", IF ready THEN {} ELSE {SERVICE_NOT_READY},
                             {SERVICE_NOT_READY})
          /\ UNCHANGED <<emergency_changed, todo, setDutyVars>>
        BY <1>2 DEF CheckRequiredServices
    <2>2. UNCHANGED emergencyVars \/ updating'["emergency"] = "broadcast"
        BY <2>1, UpdateAnnounced DEF Updaters
    <2> QED
        BY <2>1, <2>2 DEF Updaters
<1>3. ASSUME StatusSchedule PROVE NoStaleSetDuty'
    BY <1>3 DEF StatusSchedule
<1>4. ASSUME NEW u \in Updaters, BroadcastChange(u) PROVE NoStaleSetDuty'
    BY <1>4 DEF BroadcastChange
<1>5. ASSUME NEW u \in Updaters, SendStatusLock(u) PROVE NoStaleSetDuty'
    BY <1>5 DEF SendStatusLock
<1>6. ASSUME NEW u \in Updaters, SendStatusUnlock(u) PROVE NoStaleSetDuty'
    BY <1>6 DEF SendStatusUnlock
<1>7. ASSUME NEW s \in Services, SetDutyRead(s) PROVE NoStaleSetDuty'
    <2>1. UNCHANGED <<reasons, updating, emergency_changed, todo>>
        BY <1>7 DEF SetDutyRead
    <2>2. saw_emergency'[s] = (reasons # {})
        BY <1>7 DEF SetDutyRead
    <2>3. ASSUME NEW t \in Services, t # s
          PROVE  phase'[t] = phase[t] /\ saw_emergency'[t] = saw_emergency[t]
        BY <1>7, <2>3 DEF SetDutyRead
    <2> QED
        BY ONLY NoStaleSetDuty, <2>1, <2>2, <2>3 DEF NoStaleSetDuty, Undelivered
<1>8. ASSUME NEW s \in Services, NEW m \in Motors, SetDutySend(s, m) PROVE NoStaleSetDuty'
    BY <1>8 DEF SetDutySend, IsFirst
<1>9. ASSUME NEW s \in Services, SetDutyDone(s) PROVE NoStaleSetDuty'
    BY <1>9 DEF SetDutyDone
<1>10. ASSUME NEW s \in Services, TickBegin(s) PROVE NoStaleSetDuty'
    BY <1>10 DEF TickBegin, EnterHandler, ZeroCommand, WithCommand
<1>11. ASSUME NEW s \in Services, NEW r \in BOOLEAN, TickEnd(s, r) PROVE NoStaleSetDuty'
    BY <1>11 DEF TickEnd, ZeroCommand, WithCommand
<1>12. ASSUME NEW s \in Services, NEW speeds \in [MotorsOf(s) -> Duties], CommandBegin(s, speeds) PROVE NoStaleSetDuty'
    BY <1>12 DEF CommandBegin, EnterHandler, WithCommand
<1>13. ASSUME NEW s \in Services, CommandEnd(s) PROVE NoStaleSetDuty'
    BY <1>13 DEF CommandEnd
<1>14. ASSUME NEW s \in Services, CommandExpires(s) PROVE NoStaleSetDuty'
    BY <1>14 DEF CommandExpires
<1>15. ASSUME NEW s \in Services, OnStart(s) PROVE NoStaleSetDuty'
    BY <1>15 DEF OnStart, ZeroCommand, WithCommand
<1>16. ASSUME NEW s \in Services, OnStop(s) PROVE NoStaleSetDuty'
    BY <1>16 DEF OnStop, ZeroCommand, WithCommand
<1>17. ASSUME NEW m \in Motors, ESCCallback(m) PROVE NoStaleSetDuty'
    BY <1>17 DEF ESCCallback
<1>18. ASSUME InputsChanged PROVE NoStaleSetDuty'
    BY <1>18 DEF InputsChanged
<1>19. ASSUME GetAndClearFlags PROVE NoStaleSetDuty'
    BY <1>19 DEF GetAndClearFlags
<1>20. ASSUME NEW s \in Services, OnEmergencyChangedEvent(s) PROVE NoStaleSetDuty'
    BY <1>20 DEF OnEmergencyChangedEvent, IsFirst
<1>21. ASSUME NEW s \in Services, EmergencyLock(s) PROVE NoStaleSetDuty'
    BY <1>21 DEF EmergencyLock, ZeroCommand, WithCommand, IsFirst
<1>22. ASSUME NEW s \in Services, EmergencyUnlock(s) PROVE NoStaleSetDuty'
    BY <1>22 DEF EmergencyUnlock, IsFirst
<1>23. ASSUME NEW add \in SUBSET MotionReasons, MainCheckInputs(add) PROVE NoStaleSetDuty'
    <2>1. UpdateEmergency("main", add, MotionReasons) /\ UNCHANGED <<emergency_changed, todo, setDutyVars>>
        BY <1>23 DEF MainCheckInputs
    <2>2. UNCHANGED emergencyVars \/ updating'["main"] = "broadcast"
        BY <2>1, UpdateAnnounced DEF Updaters
    <2> QED
        BY <2>1, <2>2 DEF Updaters
<1>24. ASSUME DispatchDone PROVE NoStaleSetDuty'
    BY <1>24 DEF DispatchDone
<1>25. CASE UNCHANGED vars
    BY <1>25 DEF vars
<1> HIDE DEF NoStaleSetDuty, Undelivered, LockInv, TypeOK, NONE, emergencyVars, mainVars, lifeVars, setDutyVars
<1> QED
    BY <1>1, <1>2, <1>3, <1>4, <1>5, <1>6, <1>7, <1>8, <1>9, <1>10, <1>11,
       <1>12, <1>13, <1>14, <1>15, <1>16, <1>17, <1>18, <1>19, <1>20, <1>21,
       <1>22, <1>23, <1>24, <1>25
    DEF Next, EmergencyCall, UpdaterStep, ServiceCall, HandlerStep, MainStep

\* With no stale sender, only main's zeros or an emergency's zeros are sent.
LEMMA StoppedStep ==
    ASSUME StopInv, [Next]_vars PROVE StoppedWhenDelivered'
<1> USE ConstantsAssumption
<1> USE DEF StoppedWhenDelivered, Undelivered, StopInv, LockInv, MainSendsZero,
           NoStaleSetDuty, TypeOK, NONE, MotorsOf, emergencyVars, mainVars, lifeVars, setDutyVars
<1>1. ASSUME NEW add \in SUBSET MotionReasons, EmergencyUpdate(add) PROVE StoppedWhenDelivered'
    <2>1. UpdateEmergency("emergency", add, MotionReasons) /\ UNCHANGED <<emergency_changed, todo, duty>>
        BY <1>1 DEF EmergencyUpdate
    <2>2. UNCHANGED emergencyVars \/ updating'["emergency"] = "broadcast"
        BY <2>1, UpdateAnnounced DEF Updaters
    <2> QED
        BY <2>1, <2>2 DEF Updaters
<1>2. ASSUME NEW h \in BOOLEAN, CheckRequiredServices(h) PROVE StoppedWhenDelivered'
    <2> DEFINE ready == h /\ \A s \in Services : IsHealthy(s)
    <2>1. /\ UpdateEmergency("emergency", IF ready THEN {} ELSE {SERVICE_NOT_READY},
                             {SERVICE_NOT_READY})
          /\ UNCHANGED <<emergency_changed, todo, duty>>
        BY <1>2 DEF CheckRequiredServices
    <2>2. UNCHANGED emergencyVars \/ updating'["emergency"] = "broadcast"
        BY <2>1, UpdateAnnounced DEF Updaters
    <2> QED
        BY <2>1, <2>2 DEF Updaters
<1>3. ASSUME StatusSchedule PROVE StoppedWhenDelivered'
    BY <1>3 DEF StatusSchedule
<1>4. ASSUME NEW u \in Updaters, BroadcastChange(u) PROVE StoppedWhenDelivered'
    BY <1>4 DEF BroadcastChange
<1>5. ASSUME NEW u \in Updaters, SendStatusLock(u) PROVE StoppedWhenDelivered'
    BY <1>5 DEF SendStatusLock
<1>6. ASSUME NEW u \in Updaters, SendStatusUnlock(u) PROVE StoppedWhenDelivered'
    BY <1>6 DEF SendStatusUnlock
<1>7. ASSUME NEW s \in Services, SetDutyRead(s) PROVE StoppedWhenDelivered'
    BY <1>7 DEF SetDutyRead
<1>8. ASSUME NEW s \in Services, NEW m \in Motors, SetDutySend(s, m) PROVE StoppedWhenDelivered'
    BY <1>8 DEF SetDutySend, IsFirst
<1>9. ASSUME NEW s \in Services, SetDutyDone(s) PROVE StoppedWhenDelivered'
    BY <1>9 DEF SetDutyDone
<1>10. ASSUME NEW s \in Services, TickBegin(s) PROVE StoppedWhenDelivered'
    BY <1>10 DEF TickBegin, EnterHandler, ZeroCommand, WithCommand
<1>11. ASSUME NEW s \in Services, NEW r \in BOOLEAN, TickEnd(s, r) PROVE StoppedWhenDelivered'
    BY <1>11 DEF TickEnd, ZeroCommand, WithCommand
<1>12. ASSUME NEW s \in Services, NEW speeds \in [MotorsOf(s) -> Duties], CommandBegin(s, speeds) PROVE StoppedWhenDelivered'
    BY <1>12 DEF CommandBegin, EnterHandler, WithCommand
<1>13. ASSUME NEW s \in Services, CommandEnd(s) PROVE StoppedWhenDelivered'
    BY <1>13 DEF CommandEnd
<1>14. ASSUME NEW s \in Services, CommandExpires(s) PROVE StoppedWhenDelivered'
    BY <1>14 DEF CommandExpires
<1>15. ASSUME NEW s \in Services, OnStart(s) PROVE StoppedWhenDelivered'
    BY <1>15 DEF OnStart, ZeroCommand, WithCommand
<1>16. ASSUME NEW s \in Services, OnStop(s) PROVE StoppedWhenDelivered'
    BY <1>16 DEF OnStop, ZeroCommand, WithCommand
<1>17. ASSUME NEW m \in Motors, ESCCallback(m) PROVE StoppedWhenDelivered'
    BY <1>17 DEF ESCCallback
<1>18. ASSUME InputsChanged PROVE StoppedWhenDelivered'
    BY <1>18 DEF InputsChanged
<1>19. ASSUME GetAndClearFlags PROVE StoppedWhenDelivered'
    <2> SUFFICES ASSUME NEW m \in Motors, reasons # {}, ~Undelivered(service_of[m])'
                 PROVE  duty[m] = 0
        BY <1>19 DEF GetAndClearFlags
    <2>1. ~emergency_changed /\ main = "wait"
        BY <1>19 DEF GetAndClearFlags
    <2> QED
        BY <1>19, <2>1 DEF GetAndClearFlags
<1>20. ASSUME NEW s \in Services, OnEmergencyChangedEvent(s) PROVE StoppedWhenDelivered'
    BY <1>20 DEF OnEmergencyChangedEvent, IsFirst
<1>21. ASSUME NEW s \in Services, EmergencyLock(s) PROVE StoppedWhenDelivered'
    BY <1>21 DEF EmergencyLock, ZeroCommand, WithCommand, IsFirst
<1>22. ASSUME NEW s \in Services, EmergencyUnlock(s) PROVE StoppedWhenDelivered'
    BY <1>22 DEF EmergencyUnlock, IsFirst
<1>23. ASSUME NEW add \in SUBSET MotionReasons, MainCheckInputs(add) PROVE StoppedWhenDelivered'
    <2>1. UpdateEmergency("main", add, MotionReasons) /\ UNCHANGED <<emergency_changed, todo, duty>>
        BY <1>23 DEF MainCheckInputs
    <2>2. UNCHANGED emergencyVars \/ updating'["main"] = "broadcast"
        BY <2>1, UpdateAnnounced DEF Updaters
    <2> QED
        BY <2>1, <2>2 DEF Updaters
<1>24. ASSUME DispatchDone PROVE StoppedWhenDelivered'
    BY <1>24 DEF DispatchDone
<1>25. CASE UNCHANGED vars
    BY <1>25 DEF vars
<1> HIDE DEF StoppedWhenDelivered, Undelivered, StopInv, LockInv, MainSendsZero,
           NoStaleSetDuty, TypeOK, NONE, MotorsOf, emergencyVars, mainVars, lifeVars, setDutyVars
<1> QED
    BY <1>1, <1>2, <1>3, <1>4, <1>5, <1>6, <1>7, <1>8, <1>9, <1>10, <1>11,
       <1>12, <1>13, <1>14, <1>15, <1>16, <1>17, <1>18, <1>19, <1>20, <1>21,
       <1>22, <1>23, <1>24, <1>25
    DEF Next, EmergencyCall, UpdaterStep, ServiceCall, HandlerStep, MainStep

\* Type correctness: reasons, locks, handlers, commands and duties keep their
\* types through every interleaving of the service threads and main.
THEOREM TypeCorrect == Spec => []TypeOK
<1>1. Init => TypeOK
    BY InitType
<1>2. TypeOK /\ [Next]_vars => TypeOK'
    BY TypeStep
<1> QED
    BY <1>1, <1>2, PTL DEF Spec

\* The inductive invariant holds in every reachable state.
THEOREM StopInvariant == Spec => []StopInv
<1>1. Init => StopInv
    <2> SUFFICES ASSUME Init PROVE StopInv
        OBVIOUS
    <2>1. TypeOK
        BY InitType
    <2>2. LockInv
        BY DEF Init, LockInv, NONE, IsFirst
    <2>3. MainSendsZero /\ NoStaleSetDuty /\ StoppedWhenDelivered
        BY ConstantsAssumption DEF Init, MainSendsZero, NoStaleSetDuty,
           StoppedWhenDelivered, NONE
    <2> QED
        BY <2>1, <2>2, <2>3 DEF StopInv
<1>2. StopInv /\ [Next]_vars => StopInv'
    BY TypeStep, LockStep, MainSendsZeroStep, NoStaleSetDutyStep, StoppedStep DEF StopInv
<1> QED
    BY <1>1, <1>2, PTL DEF Spec

\* Once an emergency has been delivered to a motor service, every ESC of that
\* service was last told to stop (OnEmergencyChangedEvent, SetDuty).
THEOREM EmergencyStops == Spec => []StoppedWhenDelivered
<1>1. StopInv => StoppedWhenDelivered
    BY DEF StopInv
<1> QED
    BY StopInvariant, <1>1, PTL

-----------------------------------------------------------------------------
(* The refinement of StopContract.                                         *)

\* What the services have been told depends on these variables only.
LEMMA SameTold ==
    ASSUME UNCHANGED <<updating, emergency_changed, todo>>
    PROVE  Told' = Told
BY DEF Told, Undelivered

\* Nobody has been told while a change is still to be broadcast or fetched.
LEMMA NobodyTold ==
    /\ (\E u \in Updaters : updating[u] = "broadcast") \/ emergency_changed \/ Services \subseteq todo => Told = {}
    /\ (\E u \in Updaters : updating'[u] = "broadcast") \/ emergency_changed' \/ Services \subseteq todo' => Told' = {}
BY DEF Told, Undelivered

\* A service leaves main's list: it is told, unless another change is under way.
LEMMA LeavesTodo ==
    ASSUME NEW s \in Services, todo' = todo \ {s}, UNCHANGED <<updating, emergency_changed>>
    PROVE  Told' = Told \/ Told' = Told \cup {s}
<1> DEFINE P == (\E u \in Updaters : updating[u] = "broadcast") \/ emergency_changed
<1>1. CASE P
    <2>1. Told = {} /\ Told' = {}
        BY <1>1, NobodyTold
    <2> QED
        BY <2>1
<1>2. CASE ~P
    <2>1. Told = {t \in Services : t \notin todo} /\ Told' = {t \in Services : t \notin todo'}
        BY <1>2 DEF Told, Undelivered
    <2>2. Told' = Told \cup {s}
        BY <2>1
    <2> QED
        BY <2>2
<1> QED
    BY <1>1, <1>2

\* A change of the reasons is one of the contract's.
LEMMA UpdateRefines ==
    ASSUME TypeOK, TypeOK', NEW u \in Updaters, NEW add, NEW clear, UpdateEmergency(u, add, clear),
           UNCHANGED <<emergency_changed, todo, duty>>
    PROVE  [Contract!ContractNext]_Contract!contractVars
<1>1. CASE (reasons \ clear) \cup add = reasons
    <2>1. UNCHANGED <<reasons, updating, duty>> /\ Told' = Told
        BY <1>1, SameTold DEF UpdateEmergency
    <2> QED
        BY <2>1 DEF Contract!contractVars
<1>2. CASE (reasons \ clear) \cup add # reasons
    <2>1. updating'[u] = "broadcast" /\ reasons' # reasons
        BY <1>2 DEF UpdateEmergency, TypeOK
    <2>2. Told' = {}
        BY <2>1, NobodyTold
    <2>3. reasons' \subseteq Reasons
        BY DEF TypeOK
    <2>4. Contract!ChangeReasons
        BY <2>1, <2>2, <2>3 DEF Contract!ChangeReasons
    <2> QED
        BY <2>4 DEF Contract!ContractNext
<1> QED
    BY <1>1, <1>2

\* A SetDuty that sends anything but zero has not been told of an emergency.
LEMMA SendRefines ==
    ASSUME StopInv, NEW s \in Services, NEW m \in Motors, SetDutySend(s, m)
    PROVE  Contract!ContractNext
<1> DEFINE d == IF saw_emergency[s] THEN 0 ELSE command[m]
<1>1. /\ phase[s] = "send" /\ m \in to_send[s] /\ duty' = [duty EXCEPT ![m] = d]
      /\ UNCHANGED <<reasons, updating, emergency_changed, todo>>
    BY DEF SetDutySend, IsFirst, emergencyVars, mainVars
<1>2. service_of[m] = s
    BY <1>1 DEF StopInv, LockInv, MotorsOf
<1>3. d \in Duties
    BY ConstantsAssumption DEF StopInv, TypeOK
<1>4. reasons # {} /\ s \in Told => d = 0
    BY <1>1 DEF StopInv, NoStaleSetDuty, Told
<1>5. Told' = Told
    BY <1>1, SameTold
<1> HIDE DEF d
<1>6. Contract!Drive(m, d)
    BY <1>1, <1>2, <1>4, <1>5 DEF Contract!Drive
<1> QED
    BY <1>3, <1>6 DEF Contract!ContractNext

\* Main fetches the change for all services, or there is none.
LEMMA FetchRefines ==
    ASSUME StopInv, GetAndClearFlags
    PROVE  UNCHANGED Contract!contractVars
<1>1. main = "wait" /\ UNCHANGED <<reasons, updating, duty>>
      /\ todo' = (IF emergency_changed THEN Services ELSE {}) /\ emergency_changed' = FALSE
    BY DEF GetAndClearFlags, emergencyVars, setDutyVars
<1>2. CASE emergency_changed
    <2>1. Told = {} /\ Told' = {}
        BY <1>1, <1>2, NobodyTold
    <2> QED
        BY <1>1, <2>1 DEF Contract!contractVars
<1>3. CASE ~emergency_changed
    <2>1. todo = {} /\ emergency_changed = FALSE
        BY <1>1, <1>3 DEF StopInv, LockInv, TypeOK
    <2>2. todo' = todo /\ emergency_changed' = emergency_changed
        BY <1>1, <1>3, <2>1
    <2>3. Told' = Told
        BY <1>1, <2>2, SameTold
    <2> QED
        BY <1>1, <2>3 DEF Contract!contractVars
<1> QED
    BY <1>2, <1>3

\* A service that main has nothing to tell.
LEMMA EventRefines ==
    ASSUME StopInv, NEW s \in Services, OnEmergencyChangedEvent(s)
    PROVE  [Contract!ContractNext]_Contract!contractVars
<1>1. UNCHANGED <<reasons, updating, emergency_changed, duty>>
    BY DEF OnEmergencyChangedEvent, emergencyVars, setDutyVars
<1>2. CASE reasons = {}
    <2>1. todo' = todo \ {s}
        BY <1>2 DEF OnEmergencyChangedEvent
    <2>2. Told' = Told \/ Told' = Told \cup {s}
        BY <1>1, <2>1, LeavesTodo
    <2>3. CASE Told' = Told
        BY <1>1, <2>3 DEF Contract!contractVars
    <2>4. CASE Told' = Told \cup {s}
        <3>1. Contract!Tell(s)
            BY <1>1, <1>2, <2>4 DEF Contract!Tell
        <3> QED
            BY <3>1 DEF Contract!ContractNext
    <2> QED
        BY <2>2, <2>3, <2>4
<1>3. CASE reasons # {}
    <2>1. todo' = todo
        BY <1>3 DEF OnEmergencyChangedEvent
    <2>2. Told' = Told
        BY <1>1, <2>1, SameTold
    <2> QED
        BY <1>1, <2>2 DEF Contract!contractVars
<1> QED
    BY <1>2, <1>3

\* Main leaves a service with its ESCs at rest.
LEMMA UnlockRefines ==
    ASSUME StopInv, NEW s \in Services, EmergencyUnlock(s)
    PROVE  [Contract!ContractNext]_Contract!contractVars
<1>1. /\ UNCHANGED <<reasons, updating, emergency_changed, duty>> /\ todo' = todo \ {s}
      /\ main = "held" /\ IsFirst(s, todo) /\ phase[s] = "done"
    BY DEF EmergencyUnlock, emergencyVars
<1>2. holder[s] = "main" /\ to_send[s] = {}
    BY <1>1 DEF StopInv, LockInv
<1>3. Contract!AtRest(s)
    BY <1>1, <1>2 DEF Contract!AtRest, StopInv, MainSendsZero
<1>4. Told' = Told \/ Told' = Told \cup {s}
    BY <1>1, LeavesTodo
<1>5. CASE Told' = Told
    BY <1>1, <1>5 DEF Contract!contractVars
<1>6. CASE Told' = Told \cup {s}
    <2>1. Contract!Tell(s)
        BY <1>1, <1>3, <1>6 DEF Contract!Tell
    <2> QED
        BY <2>1 DEF Contract!ContractNext
<1> QED
    BY <1>4, <1>5, <1>6

\* The steps of SendStatus do not change what is to be broadcast.
LEMMA StatusRefines ==
    ASSUME TypeOK, NEW u \in Updaters, NEW x, updating[u] # "broadcast", x # "broadcast",
           updating' = [updating EXCEPT ![u] = x],
           UNCHANGED <<reasons, emergency_changed, todo, duty>>
    PROVE  UNCHANGED Contract!contractVars
<1>1. \A v \in Updaters : updating'[v] = "broadcast" <=> updating[v] = "broadcast"
    BY DEF TypeOK
<1>2. Told' = Told
    BY <1>1 DEF Told, Undelivered
<1> QED
    BY <1>2 DEF Contract!contractVars

\* Every step is one of the contract's, or changes nothing it speaks of.
LEMMA ContractStep ==
    ASSUME StopInv, TypeOK', [Next]_vars
    PROVE  [Contract!ContractNext]_Contract!contractVars
<1> DEFINE Refined == [Contract!ContractNext]_Contract!contractVars
<1>0. TypeOK
    BY DEF StopInv
<1>a. ASSUME UNCHANGED <<reasons, updating, emergency_changed, todo, duty>> PROVE Refined
    <2>1. Told' = Told
        BY <1>a, SameTold
    <2> QED
        BY <1>a, <2>1 DEF Contract!contractVars
<1>b. ASSUME UNCHANGED Contract!contractVars PROVE Refined
    BY <1>b
<1> HIDE DEF Refined
<1> USE DEF emergencyVars, mainVars, lifeVars, setDutyVars
<1>1. ASSUME NEW add \in SUBSET MotionReasons, EmergencyUpdate(add) PROVE Refined
    BY <1>0, <1>1, UpdateRefines DEF EmergencyUpdate, Updaters, Refined
<1>2. ASSUME NEW h \in BOOLEAN, CheckRequiredServices(h) PROVE Refined
    <2> DEFINE ready == h /\ \A s \in Services : IsHealthy(s)
               add == IF ready THEN {} ELSE {SERVICE_NOT_READY}
    <2>1. UpdateEmergency("emergency", add, {SERVICE_NOT_READY})
          /\ UNCHANGED <<emergency_changed, todo, duty>>
        BY <1>2 DEF CheckRequiredServices
    <2> HIDE DEF add
    <2> QED
        BY <1>0, <2>1, UpdateRefines DEF Updaters, Refined
<1>3. ASSUME StatusSchedule PROVE Refined
    <2>1. UNCHANGED Contract!contractVars
        BY <1>0, <1>3, StatusRefines DEF StatusSchedule, Updaters
    <2> QED
        BY <1>b, <2>1
<1>4. ASSUME NEW u \in Updaters, BroadcastChange(u) PROVE Refined
    <2>1. Told = {} /\ Told' = {}
        BY <1>4, NobodyTold DEF BroadcastChange
    <2>2. UNCHANGED Contract!contractVars
        BY <1>4, <2>1 DEF BroadcastChange, Contract!contractVars
    <2> QED
        BY <1>b, <2>2
<1>5. ASSUME NEW u \in Updaters, SendStatusLock(u) PROVE Refined
    <2>1. UNCHANGED Contract!contractVars
        BY <1>0, <1>5, StatusRefines DEF SendStatusLock
    <2> QED
        BY <1>b, <2>1
<1>6. ASSUME NEW u \in Updaters, SendStatusUnlock(u) PROVE Refined
    <2>1. UNCHANGED Contract!contractVars
        BY <1>0, <1>6, StatusRefines DEF SendStatusUnlock
    <2> QED
        BY <1>b, <2>1
<1>7. ASSUME NEW s \in Services, SetDutyRead(s) PROVE Refined
    BY <1>a, <1>7 DEF SetDutyRead
<1>8. ASSUME NEW s \in Services, NEW m \in Motors, SetDutySend(s, m) PROVE Refined
    BY <1>8, SendRefines DEF Refined
<1>9. ASSUME NEW s \in Services, SetDutyDone(s) PROVE Refined
    BY <1>a, <1>9 DEF SetDutyDone
<1>10. ASSUME NEW s \in Services, TickBegin(s) PROVE Refined
    BY <1>a, <1>10 DEF TickBegin
<1>11. ASSUME NEW s \in Services, NEW r \in BOOLEAN, TickEnd(s, r) PROVE Refined
    BY <1>a, <1>11 DEF TickEnd
<1>12. ASSUME NEW s \in Services, NEW speeds \in [MotorsOf(s) -> Duties], CommandBegin(s, speeds) PROVE Refined
    BY <1>a, <1>12 DEF CommandBegin
<1>13. ASSUME NEW s \in Services, CommandEnd(s) PROVE Refined
    BY <1>a, <1>13 DEF CommandEnd
<1>14. ASSUME NEW s \in Services, CommandExpires(s) PROVE Refined
    BY <1>a, <1>14 DEF CommandExpires
<1>15. ASSUME NEW s \in Services, OnStart(s) PROVE Refined
    BY <1>a, <1>15 DEF OnStart
<1>16. ASSUME NEW s \in Services, OnStop(s) PROVE Refined
    BY <1>a, <1>16 DEF OnStop
<1>17. ASSUME NEW m \in Motors, ESCCallback(m) PROVE Refined
    BY <1>a, <1>17 DEF ESCCallback
<1>18. ASSUME InputsChanged PROVE Refined
    BY <1>a, <1>18 DEF InputsChanged
<1>19. ASSUME GetAndClearFlags PROVE Refined
    BY <1>b, <1>19, FetchRefines
<1>20. ASSUME NEW s \in Services, OnEmergencyChangedEvent(s) PROVE Refined
    BY <1>20, EventRefines DEF Refined
<1>21. ASSUME NEW s \in Services, EmergencyLock(s) PROVE Refined
    BY <1>a, <1>21 DEF EmergencyLock
<1>22. ASSUME NEW s \in Services, EmergencyUnlock(s) PROVE Refined
    BY <1>22, UnlockRefines DEF Refined
<1>23. ASSUME NEW add \in SUBSET MotionReasons, MainCheckInputs(add) PROVE Refined
    BY <1>0, <1>23, UpdateRefines DEF MainCheckInputs, Updaters, Refined
<1>24. ASSUME DispatchDone PROVE Refined
    BY <1>a, <1>24 DEF DispatchDone
<1>25. ASSUME UNCHANGED vars PROVE Refined
    BY <1>a, <1>25 DEF vars
<1> HIDE DEF emergencyVars, mainVars, lifeVars, setDutyVars
<1>26. Refined
    BY <1>1, <1>2, <1>3, <1>4, <1>5, <1>6, <1>7, <1>8, <1>9, <1>10, <1>11,
       <1>12, <1>13, <1>14, <1>15, <1>16, <1>17, <1>18, <1>19, <1>20, <1>21,
       <1>22, <1>23, <1>24, <1>25
    DEF Next, EmergencyCall, UpdaterStep, ServiceCall, HandlerStep, MainStep
<1> QED
    BY <1>26 DEF Refined

\* UpdateEmergency, the event dispatcher and the motor services implement the
\* contract of the emergency stop, for any number of services and ESCs: whoever
\* interleaves with whom, a told service's ESCs stay at rest until the reasons
\* change.
THEOREM StopRefinesContract == Spec => ImplementsContract
<1>1. Init => Contract!ContractInit
    <2> SUFFICES ASSUME Init PROVE Contract!ContractInit
        OBVIOUS
    <2>1. reasons \subseteq Reasons /\ duty = [m \in Motors |-> 0]
        BY DEF Init
    <2>2. Told \subseteq Services
        BY DEF Told
    <2> QED
        BY <2>1, <2>2 DEF Contract!ContractInit
<1>2. StopInv /\ StopInv' /\ [Next]_vars => [Contract!ContractNext]_Contract!contractVars
    BY ContractStep DEF StopInv
<1> QED
    BY <1>1, <1>2, StopInvariant, PTL DEF Spec, ImplementsContract, Contract!ContractSpec
=============================================================================
