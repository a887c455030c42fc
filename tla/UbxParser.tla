------------------------------ MODULE UbxParser ------------------------------
(***************************************************************************)
(* The packet parser of the u-blox driver (UbxGpsDriver::ProcessBytes).  A *)
(* packet is 0xb5, 0x62, class, id, two bytes of payload length, the       *)
(* payload and two checksum bytes.                                         *)
(***************************************************************************)
EXTENDS PacketStream

CONSTANTS
    BufferSize,        \* sizeof(gbuffer_): 512
    PayloadLengths     \* payload lengths the receiver sends

ASSUME UbxAssumption ==
    /\ BufferSize \in Nat /\ 8 <= BufferSize /\ BufferSize < ByteRange * ByteRange
    /\ PayloadLengths # {} /\ PayloadLengths \subseteq 0..(BufferSize - 8)

SYNC_1 == 1            \* 0xb5
SYNC_2 == 2            \* 0x62

VARIABLES
    found_header,
    gbuffer_fill,
    length_field,      \* gbuffer_[4] and gbuffer_[5]
    faulted            \* the parser has left gbuffer_: nothing defined follows

gbufferVars == <<found_header, gbuffer_fill, length_field, faulted>>
ubxVars == <<streamVars, gbufferVars>>

GbufferInit ==
    found_header = FALSE /\ gbuffer_fill = 0 /\ length_field = <<0, 0>> /\ faulted = FALSE

UbxByteValues ==
    CASE packet.next = 0 -> {SYNC_1}
      [] packet.next = 1 -> {SYNC_2}
      [] packet.next = 4 -> {packet.length % ByteRange}
      [] packet.next = 5 -> {packet.length \div ByteRange}
      [] OTHER           -> contents

ReceiverSends ==
    SendByte(UbxByteValues, packet.length + 7, PayloadLengths) /\ UNCHANGED gbufferVars
-----------------------------------------------------------------------------
FindSync1 ==
    /\ busy
    /\ ~found_header
    /\ gbuffer_fill = 0
    /\ LET first == FirstOf(SYNC_1)
           n     == IF first = 0 THEN Len(buffer) ELSE first IN
       /\ Advance(n)
       /\ Outcome(n, FALSE, FALSE)
       /\ gbuffer_fill' = IF first = 0 THEN 0 ELSE 1
       /\ prefix' = (first # 0 /\ buffer[n].index = 0)
    /\ UNCHANGED <<found_header, length_field, faulted>>

FindSync2 ==
    /\ busy
    /\ ~found_header
    /\ gbuffer_fill = 1
    /\ Advance(1)
    /\ Outcome(1, FALSE, FALSE)
    /\ found_header' = (buffer[1].value = SYNC_2)
    /\ gbuffer_fill' = IF buffer[1].value = SYNC_2 THEN 2 ELSE 0
    /\ prefix' = (prefix /\ Follow(1, 1))
    /\ UNCHANGED <<length_field, faulted>>

\* "need 6 bytes to determine the packet length"
ReadHeader ==
    /\ busy
    /\ found_header
    /\ gbuffer_fill < 6
    /\ LET n    == IF Len(buffer) < 6 - gbuffer_fill THEN Len(buffer) ELSE 6 - gbuffer_fill
           good == prefix /\ Follow(n, gbuffer_fill) IN
       /\ Advance(n)
       /\ Outcome(n, good, FALSE)
       /\ gbuffer_fill' = gbuffer_fill + n
       /\ length_field' = [i \in 1..2 |->
             IF i + 4 - gbuffer_fill \in 1..n THEN buffer[i + 4 - gbuffer_fill].value
             ELSE length_field[i]]
       /\ prefix' = good
    /\ UNCHANGED <<found_header, faulted>>

PayloadLength == length_field[2] * ByteRange + length_field[1]

\* Deviation: the checksum is not counted.
TotalLengthShort == PayloadLength + 6

\* uint16_t
TotalLength == (PayloadLength + 8) % (ByteRange * ByteRange)

Fits == TotalLength <= BufferSize

\* "cannot read whole packet, so probably error in size, skip to next"
SkipPacket ==
    /\ busy
    /\ found_header
    /\ gbuffer_fill >= 6
    /\ ~Fits
    /\ found_header' = FALSE
    /\ gbuffer_fill' = 0
    /\ Outcome(0, FALSE, FALSE)
    /\ UNCHANGED <<peerVars, buffer, busy, prefix, length_field, faulted>>

\* The number of bytes missing is a size_t: a difference below zero is greater
\* than any len.
RestToTake ==
    LET missing == TotalLength - gbuffer_fill IN
    IF missing \in 0..Len(buffer) THEN missing ELSE Len(buffer)

(***************************************************************************)
(* The memcpy writes behind gbuffer_, where gbuffer_fill and found_header_ *)
(* are, or the number of bytes ValidateChecksum adds up, size - 4 as a     *)
(* size_t, is nearly the whole address space.                              *)
(***************************************************************************)
Leaves == gbuffer_fill + RestToTake > BufferSize \/ TotalLength < 4

\* A complete packet starts the search for the next one, its checksum right or
\* wrong.
TakeRest ==
    /\ busy
    /\ found_header
    /\ gbuffer_fill >= 6
    /\ Fits
    /\ ~Leaves
    /\ LET n    == RestToTake
           fill == gbuffer_fill + n
           done == TotalLength <= fill
           good == prefix /\ Follow(n, gbuffer_fill) IN
       /\ Advance(n)
       /\ Outcome(n, good /\ ~done, done /\ good)
       /\ gbuffer_fill' = IF done THEN 0 ELSE fill
       /\ found_header' = ~done
       /\ prefix' = good
    /\ UNCHANGED <<length_field, faulted>>

\* The same lines where what they do is not defined: the model ends here.
Fault ==
    /\ busy
    /\ found_header
    /\ gbuffer_fill >= 6
    /\ ~faulted
    /\ Fits
    /\ Leaves
    /\ faulted' = TRUE
    /\ gbuffer_fill' = gbuffer_fill + RestToTake
    /\ UNCHANGED <<streamVars, found_header, length_field>>

UbxParse ==
    \/ ~faulted /\ (FindSync1 \/ FindSync2 \/ ReadHeader \/ SkipPacket \/ TakeRest)
    \/ Fault

UbxNext ==
    \/ ReceiverSends \/ UbxParse
    \/ (CutShort \/ ProcessBytes) /\ UNCHANGED gbufferVars
    \/ faulted /\ UNCHANGED ubxVars

UbxInit == StreamInit(PayloadLengths) /\ GbufferInit

UbxSpec == UbxInit /\ [][UbxNext]_ubxVars
-----------------------------------------------------------------------------
(***************************************************************************)
(* What cannot be read whole is skipped, as the comment of the length      *)
(* check in ProcessBytes has it: no more is copied than gbuffer_ holds.    *)
(***************************************************************************)
UbxInBounds == gbuffer_fill <= BufferSize

(***************************************************************************)
(* ProcessBytes leaves gbuffer_ only with a length of which total_length,  *)
(* a uint16_t, wraps around, and then by no more than the six bytes of the *)
(* header and one call.  With every other length, one that was read from   *)
(* the middle of a packet included, all copies fit and the parser's state  *)
(* is one of its cases.                                                    *)
(***************************************************************************)
OnlyWrapFaults ==
    IF faulted
    THEN PayloadLength + 8 >= ByteRange * ByteRange /\ gbuffer_fill <= MaxBuffer + 6
    ELSE gbuffer_fill \in 0..BufferSize /\ (found_header <=> gbuffer_fill >= 2)

(***************************************************************************)
(* Packets are handed on again and again, also after one was cut short and *)
(* the parser took its length from the bytes of the next one, unless that  *)
(* length made it leave its buffer (OnlyWrapFaults).  It is stated of      *)
(* payloads without the first header byte.                                 *)
(***************************************************************************)
UbxKeepsDelivering == SYNC_1 \in contents \/ []<>delivered \/ <>faulted
=============================================================================
