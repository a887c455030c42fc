---------------------------- MODULE MCReception ----------------------------
(***************************************************************************)
(* One run for the way from a UART to a packet: the two kinds of           *)
(* reception (UartReceiver, RingReceiver), the parsers of the VESC and of  *)
(* the u-blox driver, which read a PacketStream, and the COBS frames of    *)
(* the YFR4 driver and the cover UI (CobsLink).  What the models share is  *)
(* the order of the bytes, no variable: every behaviour moves one of them, *)
(* chosen in the initial state, and leaves the state of the others as it   *)
(* was initialised.                                                        *)
(***************************************************************************)
EXTENDS UartReceiver, RingReceiver, VescParser, UbxParser, CobsLink

VARIABLE part   \* the model that moves: "buffers", "ring", "vesc", "ubx" or "cobs"

receptionVars == <<part, rxVars, ringVars, streamVars, fillVars, gbufferVars, cobsVars>>

\* With blocks of up to 3 bytes: full blocks, zeros, and ends with either.
MCPayloads == BoundedSeq({0, 1}, 3) \ {<<>>}

ReceptionInit ==
    /\ \/ part = "vesc" /\ StreamInit(Lengths)
       \/ part = "ubx" /\ StreamInit(PayloadLengths)
       \/ /\ part \in {"buffers", "ring", "cobs"}
          /\ StreamInit({1}) /\ contents = CHOOSE c \in ContentSets : TRUE
    /\ RxInit /\ RingInit /\ FillInit /\ GbufferInit /\ LinkInit
    \* The frames that do not move have one initial state.
    /\ part # "cobs" => payload = <<0>>

ReceptionNext ==
    \/ /\ part = "buffers" /\ RxNext
       /\ UNCHANGED <<part, ringVars, streamVars, fillVars, gbufferVars, cobsVars>>
    \/ /\ part = "ring" /\ RingNext
       /\ UNCHANGED <<part, rxVars, streamVars, fillVars, gbufferVars, cobsVars>>
    \/ /\ part = "vesc" /\ VescNext
       /\ UNCHANGED <<part, rxVars, ringVars, gbufferVars, cobsVars>>
    \/ /\ part = "ubx" /\ UbxNext
       /\ UNCHANGED <<part, rxVars, ringVars, fillVars, cobsVars>>
    \/ /\ part = "cobs" /\ LinkNext
       /\ UNCHANGED <<part, rxVars, ringVars, streamVars, fillVars, gbufferVars>>

(***************************************************************************)
(* Fairness.  The threads run, their timeouts fire and a full buffer       *)
(* raises its interrupt; bytes and requests may stop at any time.  The     *)
(* peer of a parser goes on sending and the thread goes on parsing.        *)
(***************************************************************************)
ReceptionFairness ==
    /\ WF_rxVars(part = "buffers" /\ Thread)
    /\ WF_rxVars(part = "buffers" /\ RxEnd)
    /\ WF_ringVars(part = "ring" /\ RingThread)
    /\ WF_ringVars(part = "ring" /\ RingRxEnd)
    /\ WF_streamVars(part = "vesc" /\ EscSends)
    /\ WF_streamVars(part = "ubx" /\ ReceiverSends)
    /\ WF_streamVars(part \in {"vesc", "ubx"} /\ ProcessBytes)
    /\ WF_vescVars(part = "vesc" /\ VescParse)
    /\ WF_ubxVars(part = "ubx" /\ UbxParse)

ReceptionSpec == ReceptionInit /\ [][ReceptionNext]_receptionVars /\ ReceptionFairness
-----------------------------------------------------------------------------
(***************************************************************************)
(* What may be written behind a receive buffer, whatever the line makes of *)
(* the bytes and wherever they are cut: nothing by the VESC's ProcessBytes *)
(* (a wrapped fill included); by that of the u-blox driver nothing unless  *)
(* total_length wraps around; by the decoding of a COBS frame nothing      *)
(* unless frames were joined.  Both exceptions do happen with the sizes of *)
(* the code: UbxInBounds and DecodeFits are what does not hold.            *)
(***************************************************************************)
BuffersHold == InBounds /\ OnlyWrapFaults /\ OnlyJoinedOverrun

(***************************************************************************)
(* ProcessBytes of both drivers hands packets on again and again, although *)
(* one was cut short and the parser took its length from the middle of     *)
(* another.  It stops for good only in a packet of which the VESC's fill,  *)
(* or the u-blox driver's total_length, wraps around; of payloads with     *)
(* header bytes nothing is claimed here (an intact stream of them is the   *)
(* subject of NoPacketLost).                                               *)
(***************************************************************************)
PacketsKeepComing ==
    /\ part = "vesc" => VescKeepsDelivering
    /\ part = "ubx" => UbxKeepsDelivering
=============================================================================
