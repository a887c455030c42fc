------------------------------ MODULE CobsLink ------------------------------
(***************************************************************************)
(* The framing of the YFR4 motor controller and of the YardForce cover UI: *)
(* payloads are COBS encoded, so that no byte of a frame is 0, and every   *)
(* frame is followed by the delimiter 0.  Both drivers have their own copy *)
(* of the codec (cobs.h; CobsEncode and CobsDecode), which do the same,    *)
(* and their ProcessRxBytes differ only in the sizes of the buffers.       *)
(*                                                                         *)
(* The line may lose or change a byte.                                     *)
(***************************************************************************)
EXTENDS Naturals, SequencesExt

CONSTANTS
  MaxCode,          \* 0xFF, the code of a block that no zero follows
  Bytes,            \* values of a byte of a payload or of a changed byte
  Payloads,         \* payloads the peer sends
  RX_BUF_SIZE,      \* size of rx_buf_ and cobs_rx_buffer_
  DECODE_BUF_SIZE,  \* size of decode_buf_ and cobs_decoded_
  MaxFrames, MaxFaults

ASSUME CobsConstants ==
  /\ MaxCode \in Nat /\ MaxCode > 1 /\ 0 \in Bytes /\ Bytes \subseteq 0..MaxCode
  /\ RX_BUF_SIZE \in Nat /\ DECODE_BUF_SIZE \in Nat
  /\ MaxFrames \in Nat /\ MaxFaults \in Nat
  /\ Payloads # {} /\ Payloads \subseteq Seq(Bytes)
  \* RX_MAX_PKT_CODED: the buffer holds the longest frame in its worst case.
  \* The other buffer holds what could be decoded from it.
  /\ \A p \in Payloads : LET worst == Len(p) + (Len(p) \div (MaxCode - 1)) IN
                          worst + 1 <= RX_BUF_SIZE /\ worst <= DECODE_BUF_SIZE

VARIABLES
  payload,  \* payload of the frame being sent
  wire,     \* its bytes still to be sent, the delimiter last
  buf,      \* rx_buf_[0 .. rx_len_)
  handed,   \* the payload the last delimiter handed to the message handler, <<>> if none
  longest,  \* history: most bytes a decoding wrote
  synced,   \* history: the last byte received was a delimiter
  clean,    \* history: nothing happened to this frame, and it began synced
  joined,   \* history: a delimiter was lost or changed
  frames, faults

cobsVars == <<payload, wire, buf, handed, longest, synced, clean, joined, frames, faults>>

-----------------------------------------------------------------------------
\* A finished block: its code, then its bytes.
Block(block) == <<Len(block) + 1>> \o block

\* CobsEncode, byte by byte: e.block holds the bytes since the last code.  A
\* zero ends the block, and so does its last possible byte.
EncodeByte(e, b) ==
  IF b = 0
  THEN [out |-> e.out \o Block(e.block), block |-> <<>>]
  ELSE IF Len(e.block) + 2 = MaxCode
  THEN [out |-> e.out \o Block(Append(e.block, b)), block |-> <<>>]
  ELSE [out |-> e.out, block |-> Append(e.block, b)]

\* The encoder after each number of bytes.
Encoder(src) ==
  LET state[n \in 0..Len(src)] ==
        IF n = 0 THEN [out |-> <<>>, block |-> <<>>]
                 ELSE EncodeByte(state[n - 1], src[n])
  IN state

CobsEncode(src) ==
  LET e == Encoder(src)[Len(src)] IN e.out \o Block(e.block)

\* CobsDecode, byte by byte: d.left bytes of the block with code d.code are to
\* come.  A block other than the last gives a zero, unless it was a full one.
DecodeByteAlwaysZero(d, b) ==   \* Deviation: after a full block too
  IF d.left > 0
  THEN [out |-> Append(d.out, b), left |-> d.left - 1, code |-> d.code]
  ELSE [out |-> IF d.code = 0 THEN d.out ELSE Append(d.out, 0), left |-> b - 1, code |-> b]

DecodeByte(d, b) ==
  IF d.left > 0
  THEN [out |-> Append(d.out, b), left |-> d.left - 1, code |-> d.code]
  ELSE [out |-> IF d.code \in {0, MaxCode} THEN d.out ELSE Append(d.out, 0),
        left |-> b - 1, code |-> b]

\* The decoder after each number of bytes.
Decoder(src) ==
  LET state[n \in 0..Len(src)] ==
        IF n = 0 THEN [out |-> <<>>, left |-> 0, code |-> 0]
                 ELSE DecodeByte(state[n - 1], src[n])
  IN state

\* The bytes written, and whether the packet was complete.
CobsDecode(src) ==
  LET d == Decoder(src)[Len(src)] IN [out |-> d.out, ok |-> d.left = 0]

-----------------------------------------------------------------------------

Room == Len(buf) < RX_BUF_SIZE

\* Deviation: a frame that cannot be decoded is kept.
ReceiveNoReset(b) ==
  IF b = 0
  THEN LET d == CobsDecode(buf) IN
       /\ buf' = IF d.ok THEN <<>> ELSE buf
       /\ handed' = IF d.ok THEN d.out ELSE <<>>
       /\ longest' = Max({longest, Len(d.out)})
  ELSE /\ buf' = IF Room THEN Append(buf, b) ELSE <<>>
       /\ UNCHANGED <<handed, longest>>

\* ProcessRxBytes for one byte.  A payload of fewer than 3 bytes is dropped by
\* the YFR4 driver here and by the cover UI in its handler.
Receive(b) ==
  IF b = 0
  THEN LET d == CobsDecode(buf) IN
       /\ buf' = <<>>
       /\ handed' = IF d.ok THEN d.out ELSE <<>>
       /\ longest' = Max({longest, Len(d.out)})
  ELSE /\ buf' = IF Room THEN Append(buf, b) ELSE <<>>
       /\ UNCHANGED <<handed, longest>>

\* The peer (external) sends the bytes of a frame one after the other.
Frame(p) == Append(CobsEncode(p), 0)

LinkInit ==
  /\ payload \in Payloads /\ wire = Frame(payload)
  /\ buf = <<>> /\ handed = <<>> /\ longest = 0
  /\ synced = TRUE /\ clean = TRUE /\ joined = FALSE /\ frames = 1 /\ faults = 0

NextByte == /\ wire # <<>> /\ wire' = Tail(wire)
            /\ UNCHANGED <<payload, frames>>

Deliver ==
  /\ NextByte /\ Receive(Head(wire)) /\ synced' = (Head(wire) = 0)
  /\ UNCHANGED <<clean, joined, faults>>

Damage ==
  /\ NextByte /\ faults < MaxFaults /\ faults' = faults + 1
  /\ clean' = FALSE /\ joined' = (joined \/ Head(wire) = 0)

Lose ==
  /\ Damage
  /\ UNCHANGED <<buf, handed, longest, synced>>

Change ==
  /\ Damage
  /\ \E b \in Bytes \ {Head(wire)} : Receive(b) /\ synced' = (b = 0)

SendFrame ==
  /\ wire = <<>> /\ frames < MaxFrames
  /\ frames' = frames + 1
  /\ \E p \in Payloads : payload' = p /\ wire' = Frame(p)
  /\ clean' = synced /\ handed' = <<>>
  /\ UNCHANGED <<buf, longest, synced, joined, faults>>

AllSent == wire = <<>> /\ frames = MaxFrames /\ UNCHANGED cobsVars

LinkNext == Deliver \/ Lose \/ Change \/ SendFrame \/ AllSent

LinkSpec == LinkInit /\ [][LinkNext]_cobsVars

-----------------------------------------------------------------------------
\* What CobsEncode makes of a payload has no zero in it, is longer by at most
\* the worst case the sizes of the buffers are computed from, and decodes to
\* the payload: zeros, full blocks and payloads that end with either included.
CodecRoundTrip ==
  LET c == CobsEncode(payload) IN
  /\ \A i \in DOMAIN c : c[i] \in 1..MaxCode
  /\ Len(c) <= Len(payload) + (Len(payload) \div (MaxCode - 1)) + 1
  /\ CobsDecode(c) = [out |-> payload, ok |-> TRUE]

\* A frame that the line left alone, after a delimiter that arrived, is handed
\* over as it was sent, whatever happened to the frames before.
CleanFrameDelivered == wire = <<>> /\ clean => handed = payload

\* The buffer for the decoded payload holds everything a decoding writes: the
\* reassembled bytes are those of one frame, as the comment of both buffers has
\* it.
DecodeFits == longest <= DECODE_BUF_SIZE

\* CobsDecode writes behind that buffer only after a delimiter was lost or
\* changed, so that frames were joined, and never as much as ProcessRxBytes
\* reassembles.  What the line makes of a single frame fits.
OnlyJoinedOverrun == longest > DECODE_BUF_SIZE => joined /\ longest < RX_BUF_SIZE
=============================================================================
