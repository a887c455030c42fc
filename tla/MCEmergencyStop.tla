--------------------------- MODULE MCEmergencyStop ---------------------------
(* Small robots for EmergencyStop: a drive and a mower, and a mower alone.    *)
EXTENDS EmergencyStop

RobotServices == {"drive", "mower"}
RobotMotors == {"left", "blade"}
RobotServiceOf == [m \in RobotMotors |-> IF m = "left" THEN "drive" ELSE "mower"]
RobotRank == [x \in RobotMotors \cup RobotServices |-> IF x \in {"mower", "blade"} THEN 1 ELSE 0]

BladeServices == {"mower"}
BladeMotors == {"blade"}
BladeServiceOf == [m \in BladeMotors |-> "mower"]
BladeRank == [x \in BladeMotors \cup BladeServices |-> 0]

StopOrGo == {0, 1}

\* Bound of the run with two services: commands do not time out and no input
\* changes (CheckInputs has no reason to add there).
RobotBound == ~inputs_changed /\ \A s \in Services : command_age[s] # "expired"
=============================================================================
