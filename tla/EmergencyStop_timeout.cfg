SPECIFICATION Spec
CONSTANTS
    Services <- BladeServices
    Blades = {"mower"}
    Motors <- BladeMotors
    service_of <- BladeServiceOf
    Rank <- BladeRank
    Duties <- StopOrGo
    MotionReasons = {"STOP"}
INVARIANT NothingSentInTimeout
