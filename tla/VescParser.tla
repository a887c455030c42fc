----------------------------- MODULE VescParser -----------------------------
(***************************************************************************)
(* The packet parser of the VESC driver (ProcessBytes, ProcessPayload).  A *)
(* packet is the header 2, a length byte, the payload, two CRC bytes and   *)
(* the trailer 3.                                                          *)
(***************************************************************************)
EXTENDS PacketStream

CONSTANT Lengths       \* payload lengths the ESC sends

ASSUME VescAssumption == Lengths # {} /\ Lengths \subseteq 1..(ByteRange - 1)

HEADER == 2
TRAILER == 3
WORKING_BUFFER_SIZE == ByteRange + 4

VARIABLES
    working_buffer_fill,
    length,            \* working_buffer_[1]
    top                \* history: bytes of the working buffer written so far

fillVars == <<working_buffer_fill, length, top>>
vescVars == <<streamVars, fillVars>>

FillInit == working_buffer_fill = 0 /\ length = 0 /\ top = 0

VescByteValues ==
    CASE packet.next = 0                 -> {HEADER}
      [] packet.next = 1                 -> {packet.length}
      [] packet.next = packet.length + 4 -> {TRAILER}
      [] OTHER                           -> contents

EscSends == SendByte(VescByteValues, packet.length + 4, Lengths) /\ UNCHANGED fillVars
-----------------------------------------------------------------------------
Written(n) == top' = IF top < n THEN n ELSE top

\* Looking for the header; everything before it is thrown away.
FindHeader ==
    /\ busy
    /\ working_buffer_fill = 0
    /\ LET first == FirstOf(HEADER)
           n     == IF first = 0 THEN Len(buffer) ELSE first IN
       /\ Advance(n)
       /\ Outcome(n, FALSE, FALSE)
       /\ working_buffer_fill' = IF first = 0 THEN 0 ELSE 1
       /\ prefix' = (first # 0 /\ buffer[n].index = 0)
       /\ Written(IF first = 0 THEN 0 ELSE 1)
    /\ UNCHANGED length

ReadLength ==
    /\ busy
    /\ working_buffer_fill = 1
    /\ Advance(1)
    /\ Outcome(1, FALSE, FALSE)
    /\ working_buffer_fill' = 2
    /\ length' = buffer[1].value
    /\ prefix' = (prefix /\ Follow(1, 1))
    /\ Written(2)

\* Deviation: the trailer is not counted.
BytesToTakeShort == LET rest == length - (working_buffer_fill - 2) + 2 IN
    IF Len(buffer) < rest THEN Len(buffer) ELSE rest

\* Deviation: one byte more.
BytesToTakeLong == LET rest == length - (working_buffer_fill - 2) + 4 IN
    IF Len(buffer) < rest THEN Len(buffer) ELSE rest

BytesToTake == LET rest == length - (working_buffer_fill - 2) + 3 IN
    IF Len(buffer) < rest THEN Len(buffer) ELSE rest

\* working_buffer_fill_ has the width of a byte; the sum compared with it has not.
TakePayload ==
    /\ busy
    /\ working_buffer_fill >= 2
    /\ LET n    == BytesToTake
           fill == (working_buffer_fill + n) % ByteRange
           done == length + 5 = fill
           good == prefix /\ Follow(n, working_buffer_fill) IN
       /\ Advance(n)
       /\ Outcome(n, FALSE, done /\ good)
       /\ working_buffer_fill' = IF done THEN 0 ELSE fill
       /\ prefix' = good
       /\ Written(working_buffer_fill + n)
    /\ UNCHANGED length

VescParse == FindHeader \/ ReadLength \/ TakePayload

VescNext ==
    \/ EscSends \/ VescParse
    \/ (CutShort \/ ProcessBytes) /\ UNCHANGED fillVars

VescInit == StreamInit(Lengths) /\ FillInit

VescSpec == VescInit /\ [][VescNext]_vescVars

\* Fairness.  The ESC goes on sending and the thread goes on parsing.
VescFairSpec ==
    /\ VescSpec
    /\ WF_vescVars(EscSends)
    /\ WF_vescVars(ProcessBytes /\ UNCHANGED fillVars)
    /\ WF_vescVars(VescParse)
-----------------------------------------------------------------------------
(***************************************************************************)
(* No packet is written beyond the working buffer, the longest one         *)
(* included, and however the bytes are cut into buffers (memcpy in         *)
(* ProcessBytes).                                                          *)
(***************************************************************************)
InBounds ==
    /\ working_buffer_fill \in 0..(ByteRange - 1)
    /\ length \in 0..(ByteRange - 1)
    /\ top <= WORKING_BUFFER_SIZE

\* The fill wraps around before it reaches the end of the packet whose length
\* was read, and then it is not small enough to start anew.
FillWraps == working_buffer_fill >= 2 /\ length + 5 > ByteRange + 1

(***************************************************************************)
(* Packets are handed on again and again, or the parser is again and again *)
(* in a packet of which the uint8_t fill cannot reach the end (payloads of *)
(* 253 bytes and more): a packet that was cut short, and what the parser   *)
(* makes of the following ones, stop it in no other way.  It is stated of  *)
(* payloads without header bytes, in which a parser that lost its place    *)
(* may find the wrong one again and again.                                 *)
(***************************************************************************)
VescKeepsDelivering == HEADER \in contents \/ []<>delivered \/ []<>FillWraps

(***************************************************************************)
(* The length of a packet is one byte and cannot exceed the buffer, as the *)
(* comment in ProcessBytes says: whatever length is read, the packet comes *)
(* to its end and the parser looks for the next one.                       *)
(***************************************************************************)
EveryLengthEnds == working_buffer_fill >= 2 ~> working_buffer_fill < 2
=============================================================================
