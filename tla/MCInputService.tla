--------------------------- MODULE MCInputService ---------------------------
(* Small input configurations for InputService. Its question is the counters, *)
(* so the clock stands still and every delay is zero.                         *)
EXTENDS InputService

Entry(reason, delay, group) ==
    [reason |-> reason, delay |-> delay, group |-> group, own_thread |-> FALSE, valid |-> TRUE]

\* Two members of one redundancy group, one lift outside it, one input that is
\* both a lift and a collision sensor of the cover UI.
LiftRequest == << Entry({"LIFT", "LATCH"}, 0, "wheels"), Entry({"LIFT", "LATCH"}, 0, "wheels"),
                  Entry({"LIFT"}, 0, NoName),
                  [Entry({"LIFT", "COLLISION"}, 0, "rear") EXCEPT !.own_thread = TRUE] >>

\* A second collision sensor; one redundancy group and one input too many; a bad entry.
CollisionRequest == << Entry({"COLLISION", "LATCH"}, 0, NoName),
                       [Entry({"COLLISION"}, 0, "a") EXCEPT !.own_thread = TRUE] >>
TooManyGroups == << Entry({"LIFT"}, 0, "a"), Entry({"LIFT"}, 0, "b"), Entry({"LIFT"}, 0, "c") >>
TooManyInputs == [k \in 1..5 |-> Entry({"COLLISION"}, 0, NoName)]
BadEntry == << Entry({"LIFT"}, 0, NoName), [Entry({"LIFT"}, 0, NoName) EXCEPT !.valid = FALSE] >>

MCRequests == {LiftRequest, CollisionRequest, TooManyGroups, TooManyInputs, BadEntry}
=============================================================================
