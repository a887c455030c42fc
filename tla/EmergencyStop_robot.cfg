SPECIFICATION Spec
CONSTANTS
    Services <- RobotServices
    Blades = {"mower"}
    Motors <- RobotMotors
    service_of <- RobotServiceOf
    Rank <- RobotRank
    Duties <- StopOrGo
    MotionReasons = {}
INVARIANTS
    StopInv
    StoppedWhenDelivered
PROPERTIES
    ImplementsContract
CONSTRAINT RobotBound
