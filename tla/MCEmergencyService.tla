------------------------- MODULE MCEmergencyService -------------------------
(* Small instances of EmergencyService.                                      *)
EXTENDS EmergencyService

Entry(reason, delay, group) ==
    [reason |-> reason, delay |-> delay, group |-> group, own_thread |-> FALSE, valid |-> TRUE]

\* A stop button that latches and a lift sensor, both with a delay longer than
\* StatusPeriod.
DelayedStop == { << Entry({"STOP", "LATCH"}, 3, NoName) >> }
DelayedLift == { << Entry({"LIFT"}, 3, NoName) >> }

\* A sign of life; one that clears what was latched.
SignOfLife == { <<{}, {}>> }
ClearAll == { <<{}, EmergencyReasons>> }

\* States that differ only in the origin of the clock, or in when an input that
\* is not active was last activated, have the same behaviours: every time is read
\* as a difference from now.
TimeView ==
    << MessageAge, [i \in Slots |-> IF active[i] THEN ActiveDuration(i) ELSE 0],
       input_running, configVars, active, emergency_pending, counterVars, injecting,
       inputs_changed, reasons, running, others_healthy, threadVars, historyVars >>
=============================================================================
