------------------------------ MODULE MCInputs ------------------------------
(***************************************************************************)
(* One run for the inputs: InputService, the steps of an update that a     *)
(* thread of lower priority is preempted in (InputPreemption), the Sabo    *)
(* stop button's heartbeat (StopHeartbeat) and the YardForce cover UI      *)
(* (CoverUi).  The four share no variable, so their interleavings add      *)
(* nothing: every behaviour moves one of them, chosen in the initial       *)
(* state, and leaves the others as they were initialised.                  *)
(***************************************************************************)
EXTENDS MCInputService, InputPreemption, StopHeartbeat, CoverUi

VARIABLE part        \* the model that moves

MCInit ==
    /\ part \in {"service", "preemption", "heartbeat", "cover_ui"}
    /\ InputInit /\ PreemptionInit /\ HeartbeatInit /\ UiInit
    /\ part # "preemption" => ~grouped     \* a model that does not move
    /\ part # "heartbeat" => button_pressed /\ pulse_in = 1 /\ tick_in = 1
    /\ part # "cover_ui" => connected      \* has one initial state

MCNext ==
    \/ /\ part = "service" /\ InputNext
       /\ UNCHANGED <<part, preemptionVars, heartbeatVars, uiVars>>
    \/ /\ part = "preemption" /\ PreemptionNext
       /\ UNCHANGED <<part, inputVars, heartbeatVars, uiVars>>
    \/ /\ part = "heartbeat" /\ HeartbeatNext
       /\ UNCHANGED <<part, inputVars, preemptionVars, uiVars>>
    \/ /\ part = "cover_ui" /\ UiNext
       /\ UNCHANGED <<part, inputVars, preemptionVars, heartbeatVars>>

(***************************************************************************)
(* Fairness.  Every thread of InputPreemption runs and main serves the     *)
(* event; nothing is assumed of the inputs, nor of when the emergency      *)
(* service polls.  The cover UI's thread runs, time passes, and a panel    *)
(* that is there answers and keeps reporting.                              *)
(***************************************************************************)
PreemptionFairness ==
    /\ WF_preemptionVars(part = "preemption" /\ CoverUiThread)
    /\ SF_preemptionVars(part = "preemption" /\ StartPoll("main"))
    /\ WF_preemptionVars(part = "preemption" /\ FinishPoll)

UiFairness ==
    /\ WF_uiVars(part = "cover_ui" /\ TakeMessages)
    /\ WF_uiVars(part = "cover_ui" /\ CheckTimers)
    /\ WF_uiVars(part = "cover_ui" /\ TimerRunsOut)
    /\ SF_uiVars(part = "cover_ui" /\ PanelAnswers)
    /\ SF_uiVars(part = "cover_ui" /\ PanelReports)

MCSpec ==
    /\ MCInit /\ [][MCNext]_<<part, inputVars, preemptionVars, heartbeatVars, uiVars>>
    /\ PreemptionFairness /\ UiFairness
=============================================================================
