----------------------------- MODULE ByteStream -----------------------------
(***************************************************************************)
(* What a UART reception promises to the parser behind it: the bytes, here *)
(* numbered in the order they arrive, are handed over in that order, each  *)
(* once, in batches of any size.                                           *)
(***************************************************************************)
EXTENDS Naturals

VARIABLES
    received,   \* number of bytes received
    taken,      \* number of bytes handed to the parser
    batch       \* the bytes of the last hand-over

streamVars == <<received, taken, batch>>

StreamInit ==
    /\ received = 0
    /\ taken = 0
    /\ batch = << >>

Receive ==
    /\ received' = received + 1
    /\ UNCHANGED <<taken, batch>>

HandOver ==
    /\ taken' \in (taken + 1)..received
    /\ batch' = [i \in 1..(taken' - taken) |-> taken + i]
    /\ UNCHANGED received

StreamNext == Receive \/ HandOver

StreamSpec == StreamInit /\ [][StreamNext]_streamVars
=============================================================================
