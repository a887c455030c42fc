---------------------------- MODULE StopContract ----------------------------
(***************************************************************************)
(* What the emergency stop promises, whatever threads, locks and events    *)
(* bring it about: a change of the emergency reasons is told to the motor  *)
(* services one after the other, a service counts as told of an emergency  *)
(* only when its ESCs are at rest, and from then on they stay at rest      *)
(* until the reasons change again.                                         *)
(***************************************************************************)
CONSTANTS Services, Motors, service_of, Duties, Reasons

VARIABLES
    reasons,    \* the emergency reasons
    told,       \* services that know of the last change of the reasons
    duty        \* the duty each ESC was last told

contractVars == <<reasons, told, duty>>

AtRest(s) == \A m \in Motors : service_of[m] = s => duty[m] = 0

ContractInit ==
    /\ reasons \subseteq Reasons
    /\ told \subseteq Services
    /\ duty = [m \in Motors |-> 0]

ChangeReasons ==
    /\ reasons' \subseteq Reasons
    /\ reasons' # reasons
    /\ told' = {}
    /\ UNCHANGED duty

Tell(s) ==
    /\ reasons = {} \/ AtRest(s)
    /\ told' = told \cup {s}
    /\ UNCHANGED <<reasons, duty>>

\* A told service may only repeat the zero in an emergency.
Drive(m, d) ==
    /\ reasons # {} /\ service_of[m] \in told => d = 0
    /\ duty' = [duty EXCEPT ![m] = d]
    /\ UNCHANGED <<reasons, told>>

ContractNext ==
    \/ ChangeReasons
    \/ \E s \in Services : Tell(s)
    \/ \E m \in Motors, d \in Duties : Drive(m, d)

ContractSpec == ContractInit /\ [][ContractNext]_contractVars
=============================================================================
