---------------------------- MODULE RingReceiver ----------------------------
(***************************************************************************)
(* Continuous reception of the YardForce cover UI and the YFR4 ESC driver: *)
(* the DMA fills one buffer again and again, the interrupt at its end      *)
(* re-arms it, and the driver's thread hands the new bytes to the COBS     *)
(* parser.  The thread finds them from the position of the DMA (NDTR).     *)
(* That the DMA has started again the cover UI learns from the event of    *)
(* the interrupt, the YFR4 driver from a position smaller than its own.    *)
(*                                                                         *)
(* The events only wake the thread early; it also wakes by its timeout.    *)
(***************************************************************************)
EXTENDS Naturals

CONSTANTS
    DMA_RX_BUFFER_SIZE,
    WrapByEvent,        \* TRUE: cover UI, FALSE: YFR4 ESC
    Slack,              \* most bytes that arrive before the thread takes them
    MaxBytes            \* bound: bytes received in a behaviour

ASSUME RingAssumption ==
    /\ DMA_RX_BUFFER_SIZE \in Nat \ {0}
    /\ WrapByEvent \in BOOLEAN
    /\ Slack \in Nat
    /\ MaxBytes \in Nat

N == DMA_RX_BUFFER_SIZE

VARIABLES
    dma_rx_buffer,      \* number of the byte in each place, 0 before the first pass
    pos,                \* place the DMA writes next: N - NDTR
    base,               \* bytes received in earlier passes
    wrapEvent,          \* EVT_RX_DMA_WRAP is signalled
    ringStep,           \* where the thread is in its loop
    evt,                \* local: EVT_RX_DMA_WRAP was among the events taken
    received_so_far,    \* local
    rx_seen_len,
    \* History variables, read by the properties only.
    taken,              \* bytes handed to the parser
    batch               \* the last bytes handed to it

dmaVars == <<dma_rx_buffer, pos, base>>
takenVars == <<rx_seen_len, taken, batch>>
ringVars == <<dmaVars, wrapEvent, ringStep, evt, received_so_far, takenVars>>

arrived == base + pos

RingTypeOK ==
    /\ dma_rx_buffer \in [0..(N - 1) -> Nat]
    /\ pos \in 0..N
    /\ base \in Nat
    /\ wrapEvent \in BOOLEAN
    /\ ringStep \in {"wait", "tail", "read", "take"}
    /\ evt \in BOOLEAN
    /\ received_so_far \in 0..N
    /\ rx_seen_len \in 0..N
    /\ taken \in Nat

RingInit ==
    /\ dma_rx_buffer = [i \in 0..(N - 1) |-> 0]
    /\ pos = 0
    /\ base = 0
    /\ wrapEvent = FALSE
    /\ ringStep = "wait"
    /\ evt = FALSE
    /\ received_so_far = 0
    /\ rx_seen_len = 0
    /\ taken = 0
    /\ batch = << >>
-----------------------------------------------------------------------------
(***************************************************************************)
(* The hardware and the interrupt.                                         *)
(***************************************************************************)

RingByteReceived ==
    /\ pos < N
    /\ arrived < MaxBytes
    /\ arrived < taken + Slack
    /\ dma_rx_buffer' = [dma_rx_buffer EXCEPT ![pos] = arrived + 1]
    /\ pos' = pos + 1
    /\ UNCHANGED <<base, wrapEvent, ringStep, evt, received_so_far, takenVars>>

SignalWrap == wrapEvent' = TRUE

\* rxend_cb: until it runs the DMA stands still at the end of the buffer.
RingRxEnd ==
    /\ pos = N
    /\ pos' = 0
    /\ base' = base + N
    /\ SignalWrap
    /\ UNCHANGED <<dma_rx_buffer, ringStep, evt, received_so_far, takenVars>>
-----------------------------------------------------------------------------
(***************************************************************************)
(* The thread.  ProcessRxBytes is given the bytes from rx_seen_len to the  *)
(* place before to; an empty piece is nothing.                             *)
(***************************************************************************)

\* Deviation: the piece begins one byte late.
ProcessRxBytesLate(to) ==
    IF to > rx_seen_len
    THEN /\ taken' = taken + (to - rx_seen_len)
         /\ batch' = [i \in 1..(to - rx_seen_len - 1) |-> dma_rx_buffer[rx_seen_len + i]]
    ELSE UNCHANGED <<taken, batch>>

ProcessRxBytes(to) ==
    IF to > rx_seen_len
    THEN /\ taken' = taken + (to - rx_seen_len)
         /\ batch' = [i \in 1..(to - rx_seen_len) |-> dma_rx_buffer[rx_seen_len + i - 1]]
    ELSE UNCHANGED <<taken, batch>>

\* chEvtWaitAnyTimeout: takes the events signalled so far.
Wait ==
    /\ ringStep = "wait"
    /\ evt' = wrapEvent
    /\ wrapEvent' = FALSE
    /\ ringStep' = IF WrapByEvent THEN "tail" ELSE "read"
    /\ UNCHANGED <<dmaVars, received_so_far, takenVars>>

Wrapped == IF WrapByEvent THEN evt ELSE received_so_far < rx_seen_len

\* The rest of the buffer behind rx_seen_len, when the DMA has started again.
TakeTail ==
    /\ ringStep = "tail"
    /\ IF Wrapped
       THEN /\ ProcessRxBytes(N)
            /\ rx_seen_len' = 0
       ELSE UNCHANGED takenVars
    /\ ringStep' = IF WrapByEvent THEN "read" ELSE "take"
    /\ UNCHANGED <<dmaVars, wrapEvent, evt, received_so_far>>

ReadNDTR ==
    /\ ringStep = "read"
    /\ received_so_far' = pos
    /\ ringStep' = IF WrapByEvent THEN "take" ELSE "tail"
    /\ UNCHANGED <<dmaVars, wrapEvent, evt, takenVars>>

\* Deviation: a single new byte is left for later.
NewPairOfBytes == received_so_far > rx_seen_len + 1

NewBytes == received_so_far > rx_seen_len

TakeNew ==
    /\ ringStep = "take"
    /\ IF NewBytes
       THEN /\ ProcessRxBytes(received_so_far)
            /\ rx_seen_len' = received_so_far
       ELSE UNCHANGED takenVars
    /\ ringStep' = "wait"
    /\ UNCHANGED <<dmaVars, wrapEvent, evt, received_so_far>>

RingThread == Wait \/ TakeTail \/ ReadNDTR \/ TakeNew

RingNext == RingByteReceived \/ RingRxEnd \/ RingThread

RingSpec == RingInit /\ [][RingNext]_ringVars

-----------------------------------------------------------------------------
(***************************************************************************)
(* Properties.                                                             *)
(***************************************************************************)

Stream == INSTANCE ByteStream WITH received <- arrived

(***************************************************************************)
(* As long as fewer bytes than the buffer has wait for the thread, the     *)
(* reception implements the stream: whatever the order of DMA, interrupt   *)
(* and thread, the parser gets every byte once and in order (ThreadFunc,   *)
(* threadFunc).                                                            *)
(***************************************************************************)
ImplementsStream == Stream!StreamSpec

(***************************************************************************)
(* Where the bytes are: the thread is either in the DMA's pass or one pass *)
(* behind it, then the wrap is still to be noticed, and what it has not    *)
(* taken has not been overwritten.                                         *)
(***************************************************************************)
SamePass ==
    /\ taken = base + rx_seen_len
    /\ rx_seen_len <= pos
    /\ WrapByEvent => ~wrapEvent /\ ~(ringStep = "tail" /\ evt)

OnePassBehind ==
    /\ base >= N
    /\ taken + N = base + rx_seen_len
    /\ pos < rx_seen_len
    /\ WrapByEvent => (wrapEvent <=> ~(ringStep = "tail" /\ evt))

\* received_so_far is a position of the pass the thread is in, or of the next one.
PositionRead ==
    /\ ringStep = "take" =>
            \/ SamePass /\ received_so_far \in rx_seen_len..pos
            \/ OnePassBehind /\ WrapByEvent /\ received_so_far < rx_seen_len /\ received_so_far <= pos
            \/ OnePassBehind /\ received_so_far >= rx_seen_len
    /\ ringStep = "tail" /\ ~WrapByEvent =>
            \/ SamePass /\ received_so_far \in rx_seen_len..pos
            \/ OnePassBehind /\ received_so_far <= pos
            \/ OnePassBehind /\ received_so_far >= rx_seen_len

RingInv ==
    /\ RingTypeOK
    /\ SamePass \/ OnePassBehind
    /\ arrived <= taken + Slack
    /\ \A i \in 0..(N - 1) :
           dma_rx_buffer[i] = IF i < pos THEN base + i + 1
                              ELSE IF base = 0 THEN 0 ELSE base + i + 1 - N
    /\ PositionRead

(***************************************************************************)
(* Every byte received is handed to the parser in the end, without a       *)
(* further byte having to arrive.                                          *)
(***************************************************************************)
EveryByteTaken == \A n \in 1..MaxBytes : arrived >= n ~> taken >= n
=============================================================================
