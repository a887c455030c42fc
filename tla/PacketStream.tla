---------------------------- MODULE PacketStream ----------------------------
(***************************************************************************)
(* What the packet parsers of the VESC and of the u-blox driver have in    *)
(* common: a peer that sends packets, a line that may cut one short, and   *)
(* ProcessBytes, which gets the bytes cut into buffers of any size and     *)
(* takes some of them in every pass of its loop.  The width of a byte is a *)
(* parameter, so that length fields can run through all their values.      *)
(*                                                                         *)
(* Of a parser's buffer the models keep the fill, the length and whether   *)
(* the bytes in it are the first ones of the packet being sent: exactly    *)
(* then the checksum of a complete packet is taken to be right.            *)
(***************************************************************************)
EXTENDS Integers, Sequences

CONSTANTS
    ByteRange,         \* 256
    ContentSets,       \* values that occur in payloads and checksums
    MaxBuffer          \* bound: bytes in one call of ProcessBytes

ASSUME StreamAssumption ==
    /\ ByteRange \in Nat /\ ByteRange > 5
    /\ \A values \in ContentSets : values # {} /\ values \subseteq 0..(ByteRange - 1)
    /\ MaxBuffer \in Nat \ {0}

VARIABLES
    contents,          \* the values in the payloads of this behaviour
    packet,            \* the peer: [length, next byte to send]
    buffer,            \* the rest of the bytes given to ProcessBytes
    busy,              \* ProcessBytes runs
    prefix,            \* the parser's buffer holds the packet's first bytes
    \* History variables, read by the properties only.
    delivered,         \* the last loop pass handed a packet on
    lost,              \* the last loop pass dropped the end of an intact packet
    truncated          \* a packet has been cut short

peerVars == <<contents, packet, truncated>>
streamVars == <<peerVars, buffer, busy, prefix, delivered, lost>>

StreamInit(lengths) ==
    /\ contents \in ContentSets
    /\ packet \in [length : lengths, next : {0}]
    /\ buffer = << >>
    /\ busy = FALSE
    /\ prefix = TRUE
    /\ delivered = FALSE
    /\ lost = FALSE
    /\ truncated = FALSE

\* The peer sends the next byte, one of values; last is the packet's last index.
SendByte(values, last, lengths) ==
    /\ ~busy
    /\ Len(buffer) < MaxBuffer
    /\ \E v \in values :
          buffer' = Append(buffer, [value |-> v, index |-> packet.next, end |-> last])
    /\ packet' \in IF packet.next = last THEN [length : lengths, next : {0}]
                                         ELSE {[packet EXCEPT !.next = @ + 1]}
    /\ UNCHANGED <<contents, truncated, busy, prefix, delivered, lost>>

\* One packet of a behaviour may be cut short; the next one follows.
CutShort ==
    /\ ~truncated
    /\ packet.next > 0
    /\ packet' = [packet EXCEPT !.next = 0]
    /\ truncated' = TRUE
    /\ UNCHANGED <<contents, buffer, busy, prefix, delivered, lost>>

\* The thread calls ProcessBytes with what has arrived.
ProcessBytes ==
    /\ ~busy
    /\ buffer # << >>
    /\ busy' = TRUE
    /\ UNCHANGED <<peerVars, buffer, prefix, delivered, lost>>

\* One pass through the loop of ProcessBytes takes the first n bytes.
Advance(n) ==
    /\ buffer' = SubSeq(buffer, n + 1, Len(buffer))
    /\ busy' = (n < Len(buffer))
    /\ UNCHANGED peerVars

\* The n bytes follow the ones in a parser's buffer.
Follow(n, fill) == \A i \in 1..n : buffer[i].index = fill + i - 1

\* The position of the first byte that starts a packet, or 0.
FirstOf(value) ==
    LET found == {i \in 1..Len(buffer) : buffer[i].value = value} IN
    IF found = {} THEN 0 ELSE CHOOSE i \in found : \A j \in found : i <= j

\* The pass hands a packet on, or keeps the bytes it takes, or drops them.
Outcome(n, kept, handed_on) ==
    /\ delivered' = handed_on
    /\ lost' = (~handed_on /\ ~kept /\ \E i \in 1..n : buffer[i].index = buffer[i].end)
-----------------------------------------------------------------------------
(***************************************************************************)
(* As long as no packet has been cut short every packet is handed on,      *)
(* wherever the buffers end and whatever header bytes the payloads hold:   *)
(* the parser never loses its place in an intact stream.                   *)
(***************************************************************************)
NoPacketLost == lost => truncated
=============================================================================
