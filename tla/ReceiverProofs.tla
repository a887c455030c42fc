--------------------------- MODULE ReceiverProofs ---------------------------
(***************************************************************************)
(* Proofs about the two kinds of UART reception: the two buffers that      *)
(* change roles, for both drivers and every buffer size, and the buffer    *)
(* filled round and round, which implements the byte stream, for either    *)
(* driver and any buffer size, as long as fewer bytes than the buffer has  *)
(* wait for the thread (Slack < N).                                        *)
(***************************************************************************)
EXTENDS UartReceiver, RingReceiver, TLAPS

-----------------------------------------------------------------------------
(* UartReceiver.                                                           *)

\* The other buffer is a buffer, and another one.
LEMMA OtherBuffer ==
    ASSUME NEW b \in {1, 2} PROVE Other(b) \in {1, 2} /\ Other(b) # b
BY DEF Other

\* The two halves of the type invariant: flags, and everything else.
FlagsOK ==
    /\ processing_done \in BOOLEAN
    /\ expects_packet \in BOOLEAN
    /\ unread \in BOOLEAN
    /\ dropped \in BOOLEAN
    /\ raced \in BOOLEAN

DataOK ==
    /\ recv \in {1, 2}
    /\ received \in 0..(RECV_BUFFER_SIZE - 1)
    /\ processing_buffer \in {1, 2}
    /\ processing_buffer_len \in 0..RECV_BUFFER_SIZE
    /\ events \in SUBSET {"received", "expect"}
    /\ pc \in {"wait", "timeout", "lock", "check", "process", "reset", "finish"}
    /\ last_ndtr \in 0..RECV_BUFFER_SIZE
    /\ reading \in {0, 1, 2}

LEMMA TypeHalves == RxTypeOK <=> FlagsOK /\ DataOK
BY Zenon DEF RxTypeOK, FlagsOK, DataOK

\* A swap keeps the ranges of what it assigns.
LEMMA SwapData ==
    ASSUME NEW len \in 0..RECV_BUFFER_SIZE, DataOK, Swap(len)
    PROVE  /\ recv' \in {1, 2}
           /\ received' \in 0..(RECV_BUFFER_SIZE - 1)
           /\ processing_buffer' \in {1, 2}
           /\ processing_buffer_len' \in 0..RECV_BUFFER_SIZE
<1>1. recv' = processing_buffer /\ received' = 0 /\ processing_buffer_len' = len
      /\ processing_buffer' = Other(processing_buffer)
    BY DEF Swap
<1> QED
    BY <1>1, ReceiverAssumption, OtherBuffer DEF DataOK

LEMMA SwapFlags ==
    ASSUME NEW len, Swap(len)
    PROVE  processing_done' \in BOOLEAN /\ unread' \in BOOLEAN /\ dropped' \in BOOLEAN
<1>1. processing_done' \in BOOLEAN
    BY Zenon DEF Swap
<1>2. unread' = (len > 0)
    BY Zenon DEF Swap
<1>3. dropped' \in BOOLEAN
    BY Zenon DEF Swap
<1>4. unread' \in BOOLEAN
    BY <1>2
<1> QED
    BY <1>1, <1>3, <1>4

\* Every step of the interrupt, the UART and the thread keeps the types.
LEMMA FlagsStep ==
    ASSUME FlagsOK, [RxNext]_rxVars PROVE FlagsOK'
<1> USE DEF FlagsOK, sharedVars, localVars
<1>1. CASE ByteReceived
    BY <1>1, Zenon DEF ByteReceived
<1>2. CASE RxEnd
    BY <1>2, SwapFlags, Zenon DEF RxEnd
<1>3. CASE RequestStatus
    BY <1>3, Zenon DEF RequestStatus
<1>4. CASE WaitTimeout
    BY <1>4, Zenon DEF WaitTimeout
<1>5. CASE WaitReceived
    BY <1>5, Zenon DEF WaitReceived
<1>6. CASE WaitExpect
    BY <1>6, Zenon DEF WaitExpect
<1>7. CASE CheckNDTR
    BY <1>7, Zenon DEF CheckNDTR
<1>8. CASE TakePartial
    BY <1>8, SwapFlags, Zenon DEF TakePartial
<1>9. CASE CheckLength
    BY <1>9, Zenon DEF CheckLength
<1>10. ASSUME NEW more \in BOOLEAN, ProcessBytesReturns(more) PROVE FlagsOK'
    BY <1>10, Zenon DEF ProcessBytesReturns
<1>11. CASE ResetLength
    BY <1>11, Zenon DEF ResetLength
<1>12. CASE Finish
    BY <1>12, Zenon DEF Finish
<1>13. CASE UNCHANGED rxVars
    BY <1>13, Zenon DEF rxVars
<1> QED
    BY <1>1, <1>2, <1>3, <1>4, <1>5, <1>6, <1>7, <1>8, <1>9, <1>10, <1>11, <1>12, <1>13
    DEF RxNext, Thread

LEMMA DataStep ==
    ASSUME DataOK, [RxNext]_rxVars PROVE DataOK'
<1> USE DEF DataOK, sharedVars, localVars
<1>1. CASE ByteReceived
    BY <1>1, ReceiverAssumption DEF ByteReceived
<1>2. CASE RxEnd
    <2>1. CASE processing_done
        <3>1. Swap(RECV_BUFFER_SIZE) /\ events' = events \cup {"received"}
              /\ UNCHANGED <<pc, last_ndtr, reading>>
            BY <1>2, <2>1 DEF RxEnd
        <3>2. RECV_BUFFER_SIZE \in 0..RECV_BUFFER_SIZE
            BY ReceiverAssumption
        <3> QED
            BY <3>1, <3>2, SwapData
    <2>2. CASE ~processing_done
        <3>1. recv' = Other(processing_buffer) /\ received' = 0
              /\ UNCHANGED <<sharedVars, events, pc, last_ndtr, reading>>
            BY <1>2, <2>2 DEF RxEnd
        <3> QED
            BY <3>1, OtherBuffer, ReceiverAssumption
    <2> QED
        BY <2>1, <2>2
<1>3. CASE RequestStatus
    BY <1>3 DEF RequestStatus
<1>4. CASE WaitTimeout
    BY <1>4 DEF WaitTimeout
<1>5. CASE WaitReceived
    BY <1>5 DEF WaitReceived
<1>6. CASE WaitExpect
    BY <1>6, ReceiverAssumption DEF WaitExpect
<1>7. CASE CheckNDTR
    BY <1>7, ReceiverAssumption DEF CheckNDTR, NDTR
<1>8. CASE TakePartial
    <2>1. CASE processing_done
        <3>1. Swap(received) /\ pc' = "check" /\ UNCHANGED <<events, last_ndtr, reading>>
            BY <1>8, <2>1 DEF TakePartial
        <3>2. received \in 0..RECV_BUFFER_SIZE
            BY ReceiverAssumption
        <3> QED
            BY <3>1, <3>2, SwapData
    <2>2. CASE ~processing_done
        BY <1>8, <2>2 DEF TakePartial
    <2> QED
        BY <2>1, <2>2
<1>9. CASE CheckLength
    BY <1>9 DEF CheckLength
<1>10. ASSUME NEW more \in BOOLEAN, ProcessBytesReturns(more) PROVE DataOK'
    BY <1>10 DEF ProcessBytesReturns
<1>11. CASE ResetLength
    BY <1>11, ReceiverAssumption DEF ResetLength
<1>12. CASE Finish
    BY <1>12 DEF Finish
<1>13. CASE UNCHANGED rxVars
    BY <1>13 DEF rxVars
<1> QED
    BY <1>1, <1>2, <1>3, <1>4, <1>5, <1>6, <1>7, <1>8, <1>9, <1>10, <1>11, <1>12, <1>13
    DEF RxNext, Thread

LEMMA RxTypeStep ==
    ASSUME RxTypeOK, [RxNext]_rxVars PROVE RxTypeOK'
<1>1. FlagsOK' /\ DataOK'
    BY TypeHalves, FlagsStep, DataStep
<1> QED
    BY <1>1 DEF RxTypeOK, FlagsOK, DataOK

\* Every step keeps the parts of the invariant that relate the flag, the length,
\* the event and the two buffers.
LEMMA RxInvStep ==
    ASSUME RxInv, [RxNext]_rxVars PROVE RxInv'
<1>t. RxTypeOK'
    BY RxTypeStep DEF RxInv
<1> SUFFICES BuffersDistinct' /\ NoStuckBuffer' /\ OnlyRaceLosesData' /\ HandoverInv'
    BY <1>t DEF RxInv
<1> USE DEF RxInv, BuffersDistinct, NoStuckBuffer, OnlyRaceLosesData, ParserOwnsBuffer,
            HandoverInv, sharedVars, localVars
<1>1. CASE ByteReceived
    BY <1>1 DEF ByteReceived
<1>2. CASE RxEnd
    <2>1. CASE processing_done
        BY <1>2, <2>1, OtherBuffer, ReceiverAssumption DEF RxEnd, Swap, RxTypeOK
    <2>2. CASE ~processing_done
        BY <1>2, <2>2, OtherBuffer DEF RxEnd, RxTypeOK, Other
    <2> QED
        BY <2>1, <2>2
<1>3. CASE RequestStatus
    BY <1>3 DEF RequestStatus
<1>4. CASE WaitTimeout
    BY <1>4 DEF WaitTimeout
<1>5. CASE WaitReceived
    BY <1>5 DEF WaitReceived
<1>6. CASE WaitExpect
    BY <1>6 DEF WaitExpect
<1>7. CASE CheckNDTR
    BY <1>7 DEF CheckNDTR
<1>8. CASE TakePartial
    <2>1. CASE processing_done
        BY <1>8, <2>1, OtherBuffer DEF TakePartial, Swap, RxTypeOK
    <2>2. CASE ~processing_done
        BY <1>8, <2>2 DEF TakePartial
    <2> QED
        BY <2>1, <2>2
<1>9. CASE CheckLength
    BY <1>9 DEF CheckLength, RxTypeOK
<1>10. ASSUME NEW more \in BOOLEAN, ProcessBytesReturns(more)
       PROVE  BuffersDistinct' /\ NoStuckBuffer' /\ OnlyRaceLosesData' /\ HandoverInv'
    BY <1>10 DEF ProcessBytesReturns
<1>11. CASE ResetLength
    <2>1. ~unread' /\ (~dropped /\ ~unread => ~dropped')
        BY <1>11, Zenon DEF ResetLength
    <2>2. pc = "reset" /\ pc' = "finish" /\ processing_buffer_len' = 0
          /\ UNCHANGED <<recv, processing_buffer, processing_done, events, reading, raced>>
        BY <1>11 DEF ResetLength
    <2> QED
        BY <2>1, <2>2
<1>12. CASE Finish
    <2>1. processing_done'
        BY <1>12, Zenon DEF Finish
    <2>2. pc = "finish" /\ pc' = "wait"
          /\ UNCHANGED <<recv, processing_buffer, processing_buffer_len, events, reading,
                         unread, dropped, raced>>
        BY <1>12 DEF Finish
    <2> QED
        BY <2>1, <2>2
<1>13. CASE UNCHANGED rxVars
    BY <1>13 DEF rxVars
<1> QED
    BY <1>1, <1>2, <1>3, <1>4, <1>5, <1>6, <1>7, <1>8, <1>9, <1>10, <1>11, <1>12, <1>13
    DEF RxNext, Thread

\* The inductive invariant of the reception, for either driver and any buffer size.
THEOREM ReceptionInvariant == RxSpec => []RxInv
<1>1. RxInit => RxInv
    <2> SUFFICES ASSUME RxInit PROVE RxInv
        OBVIOUS
    <2>1. FlagsOK
        BY Zenon DEF RxInit, FlagsOK
    <2>2. DataOK
        BY ReceiverAssumption DEF RxInit, DataOK
    <2>3. BuffersDistinct
        BY DEF RxInit, BuffersDistinct
    <2>4. NoStuckBuffer
        BY DEF RxInit, NoStuckBuffer
    <2>5. OnlyRaceLosesData
        BY DEF RxInit, OnlyRaceLosesData, ParserOwnsBuffer
    <2>6. HandoverInv
        BY DEF RxInit, HandoverInv
    <2> QED
        BY <2>1, <2>2, <2>3, <2>4, <2>5, <2>6, TypeHalves DEF RxInv
<1>2. RxInv /\ [RxNext]_rxVars => RxInv'
    BY RxInvStep
<1> QED
    BY <1>1, <1>2, PTL DEF RxSpec

\* The thread never sleeps on a buffer that was handed to it (threadFunc, rxend_cb).
THEOREM NoLostWakeup == RxSpec => []NoStuckBuffer
<1>1. RxInv => NoStuckBuffer
    BY DEF RxInv
<1> QED
    BY ReceptionInvariant, <1>1, PTL

\* The interrupt between a timeout and the system lock is the only way to lose a
\* buffer or to receive into the one being parsed (threadFunc, rxend_cb).
THEOREM OnlyRaceLoses == RxSpec => []OnlyRaceLosesData
<1>1. RxInv => OnlyRaceLosesData
    BY DEF RxInv
<1> QED
    BY ReceptionInvariant, <1>1, PTL
-----------------------------------------------------------------------------
(* RingReceiver.                                                           *)

(***************************************************************************)
(* Every step of the hardware, the interrupt and the thread keeps RingInv: *)
(* the thread is in the DMA's pass or one pass behind it.                  *)
(***************************************************************************)
LEMMA RingStep ==
    ASSUME Slack < N, RingInv, [RingNext]_ringVars
    PROVE  RingInv'
<1>a. N \in Nat \ {0} /\ Slack \in Nat
  BY RingAssumption DEF N
<1>b. WrapByEvent \in BOOLEAN
  BY RingAssumption
<1>. USE <1>a, <1>b DEF RingInv, RingTypeOK, arrived, dmaVars, takenVars
<1>1. CASE RingByteReceived
  BY <1>1 DEF RingByteReceived, SamePass, OnePassBehind, PositionRead
<1>2. CASE RingRxEnd
  <2>1. pos = N /\ pos' = 0 /\ base' = base + N
    BY <1>2 DEF RingRxEnd, SignalWrap
  <2>2. UNCHANGED <<dma_rx_buffer, ringStep, evt, received_so_far, rx_seen_len, taken, batch>>
    BY <1>2 DEF RingRxEnd, SignalWrap
  <2>3. wrapEvent'
    BY <1>2 DEF RingRxEnd, SignalWrap
  <2>4. SamePass
    BY <2>1 DEF OnePassBehind
  <2>5. rx_seen_len > 0
    BY <2>1, <2>4 DEF SamePass
  <2>6. wrapEvent' \in BOOLEAN
    BY <1>2 DEF RingRxEnd, SignalWrap
  <2>7. RingTypeOK'
    BY <2>1, <2>2, <2>6
  <2>8. OnePassBehind'
    BY <2>1, <2>2, <2>3, <2>4, <2>5 DEF SamePass, OnePassBehind
  <2>. QED
    BY <2>1, <2>2, <2>4, <2>7, <2>8 DEF SamePass, OnePassBehind, PositionRead
<1>3. CASE Wait
  BY <1>3 DEF Wait, SamePass, OnePassBehind, PositionRead
<1>4. CASE TakeTail
  <2>0. /\ ringStep = "tail"
        /\ UNCHANGED <<dma_rx_buffer, pos, base, wrapEvent, evt, received_so_far>>
    BY <1>4 DEF TakeTail
  <2>1. ringStep' = IF WrapByEvent THEN "read" ELSE "take"
    BY <1>4 DEF TakeTail
  <2>2. CASE Wrapped
    <3>1. rx_seen_len' = 0 /\ ProcessRxBytes(N)
      BY <1>4, <2>2 DEF TakeTail
    <3>2. taken' = taken + (N - rx_seen_len)
      <4>1. CASE N > rx_seen_len
        BY <3>1, <4>1 DEF ProcessRxBytes
      <4>2. CASE N = rx_seen_len
        BY <3>1, <4>2 DEF ProcessRxBytes
      <4>. QED
        BY <4>1, <4>2
    <3>3. OnePassBehind
      BY <2>0, <2>2 DEF Wrapped, SamePass, PositionRead
    <3>4. SamePass'
      <4>1. taken' = base' + rx_seen_len' /\ rx_seen_len' <= pos'
        BY <2>0, <3>1, <3>2, <3>3 DEF OnePassBehind
      <4>2. WrapByEvent' => ~wrapEvent'
        BY <2>0, <2>2, <3>3 DEF OnePassBehind, Wrapped
      <4>3. ringStep' # "tail"
        BY <2>1
      <4>. QED
        BY <4>1, <4>2, <4>3 DEF SamePass
    <3>5. RingTypeOK'
      BY <2>0, <2>1, <3>1, <3>2
    <3>6. PositionRead'
      BY <2>0, <2>1, <2>2, <3>1, <3>3, <3>4 DEF PositionRead, Wrapped, OnePassBehind
    <3>. QED
      BY <2>0, <3>1, <3>2, <3>4, <3>5, <3>6 DEF SamePass
  <2>3. CASE ~Wrapped
    <3>1. UNCHANGED <<rx_seen_len, taken, batch>>
      BY <1>4, <2>3 DEF TakeTail
    <3>. QED
      BY <2>0, <2>1, <2>3, <3>1 DEF Wrapped, SamePass, OnePassBehind, PositionRead
  <2>. QED
    BY <2>2, <2>3
<1>5. CASE ReadNDTR
  BY <1>5 DEF ReadNDTR, SamePass, OnePassBehind, PositionRead
<1>6. CASE TakeNew
  <2>0. /\ ringStep = "take" /\ ringStep' = "wait"
        /\ UNCHANGED <<dma_rx_buffer, pos, base, wrapEvent, evt, received_so_far>>
    BY <1>6 DEF TakeNew, NewBytes
  <2>1. CASE received_so_far > rx_seen_len
    <3>1. /\ rx_seen_len' = received_so_far
          /\ taken' = taken + (received_so_far - rx_seen_len)
      BY <1>6, <2>1 DEF TakeNew, NewBytes, ProcessRxBytes
    <3>. QED
      BY <2>0, <2>1, <3>1 DEF SamePass, OnePassBehind, PositionRead
  <2>2. CASE ~(received_so_far > rx_seen_len)
    <3>1. UNCHANGED <<rx_seen_len, taken, batch>>
      BY <1>6, <2>2 DEF TakeNew, NewBytes
    <3>. QED
      BY <2>0, <2>2, <3>1 DEF SamePass, OnePassBehind, PositionRead
  <2>. QED
    BY <2>1, <2>2
<1>7. CASE UNCHANGED ringVars
  BY <1>7 DEF ringVars, SamePass, OnePassBehind, PositionRead
<1>. QED
  BY <1>1, <1>2, <1>3, <1>4, <1>5, <1>6, <1>7 DEF RingNext, RingThread

(***************************************************************************)
(* For either driver and any buffer size, RingInv holds in every state.    *)
(***************************************************************************)
THEOREM RingInvariant ==
    ASSUME Slack < N
    PROVE  RingSpec => []RingInv
<1>1. RingInit => RingInv
  BY RingAssumption DEF RingInit, RingInv, RingTypeOK, SamePass, PositionRead, N
<1>2. RingInv /\ [RingNext]_ringVars => RingInv'
  BY RingStep
<1>. QED
  BY <1>1, <1>2, PTL DEF RingSpec

(***************************************************************************)
(* A hand-over of the bytes from rx_seen_len to the place before to is a   *)
(* hand-over of the stream: none of them has been overwritten.             *)
(***************************************************************************)
LEMMA ProcessIsHandOver ==
    ASSUME Slack < N, RingInv, NEW to \in 0..N, to > rx_seen_len,
           ProcessRxBytes(to), UNCHANGED dmaVars,
           \/ SamePass /\ to <= pos
           \/ OnePassBehind
    PROVE  Stream!HandOver
<1>a. N \in Nat \ {0}
  BY RingAssumption DEF N
<1>1. /\ taken' = taken + (to - rx_seen_len)
      /\ batch' = [i \in 1..(to - rx_seen_len) |-> dma_rx_buffer[rx_seen_len + i - 1]]
  BY DEF ProcessRxBytes
<1>2. arrived' = arrived
  BY DEF dmaVars, arrived
<1>3. \A i \in 1..(to - rx_seen_len) : dma_rx_buffer[rx_seen_len + i - 1] = taken + i
  <2>. TAKE i \in 1..(to - rx_seen_len)
  <2>1. rx_seen_len + i - 1 \in 0..(N - 1)
    BY <1>a DEF RingInv, RingTypeOK
  <2>2. dma_rx_buffer[rx_seen_len + i - 1] =
            IF rx_seen_len + i - 1 < pos THEN base + (rx_seen_len + i - 1) + 1
            ELSE IF base = 0 THEN 0 ELSE base + (rx_seen_len + i - 1) + 1 - N
    BY <2>1 DEF RingInv
  <2>. QED
    BY <1>a, <2>1, <2>2 DEF RingInv, RingTypeOK, SamePass, OnePassBehind
<1>4. taken' - taken = to - rx_seen_len
  BY <1>1, <1>a DEF RingInv, RingTypeOK
<1>5. batch' = [i \in 1..(taken' - taken) |-> taken + i]
  BY <1>1, <1>3, <1>4
<1>6. taken' \in (taken + 1)..arrived
  BY <1>1, <1>a DEF RingInv, RingTypeOK, SamePass, OnePassBehind, arrived
<1>. QED
  BY <1>2, <1>5, <1>6 DEF Stream!HandOver

(***************************************************************************)
(* Every step of the reception is a step of the stream or leaves it alone. *)
(***************************************************************************)
LEMMA RingStepRefines ==
    ASSUME Slack < N, RingInv, [RingNext]_ringVars
    PROVE  [Stream!StreamNext]_Stream!streamVars
<1>a. N \in Nat \ {0}
  BY RingAssumption DEF N
<1>. USE DEF Stream!StreamNext, Stream!streamVars
<1>1. CASE RingByteReceived
  BY <1>1, <1>a DEF RingByteReceived, Stream!Receive, arrived, takenVars, RingInv, RingTypeOK
<1>2. CASE RingRxEnd
  BY <1>2, <1>a DEF RingRxEnd, SignalWrap, arrived, takenVars, RingInv, RingTypeOK
<1>3. CASE Wait \/ ReadNDTR \/ UNCHANGED ringVars
  BY <1>3 DEF Wait, ReadNDTR, ringVars, dmaVars, takenVars, arrived
<1>4. CASE TakeTail
  <2>1. UNCHANGED dmaVars /\ ringStep = "tail"
    BY <1>4 DEF TakeTail
  <2>2. CASE Wrapped /\ N > rx_seen_len
    <3>1. ProcessRxBytes(N)
      BY <1>4, <2>2 DEF TakeTail
    <3>2. OnePassBehind
      BY <2>1, <2>2, <1>a DEF Wrapped, SamePass, PositionRead, RingInv, RingTypeOK
    <3>. QED
      BY <2>1, <2>2, <3>1, <3>2, <1>a, ProcessIsHandOver
  <2>3. CASE ~(Wrapped /\ N > rx_seen_len)
    BY <1>4, <2>1, <2>3 DEF TakeTail, ProcessRxBytes, takenVars, dmaVars, arrived
  <2>. QED
    BY <2>2, <2>3
<1>5. CASE TakeNew
  <2>1. UNCHANGED dmaVars /\ ringStep = "take"
    BY <1>5 DEF TakeNew, NewBytes
  <2>2. CASE received_so_far > rx_seen_len
    <3>1. ProcessRxBytes(received_so_far)
      BY <1>5, <2>2 DEF TakeNew, NewBytes
    <3>2. \/ SamePass /\ received_so_far <= pos
          \/ OnePassBehind
      BY <2>1 DEF PositionRead, RingInv
    <3>. QED
      BY <2>1, <2>2, <3>1, <3>2, ProcessIsHandOver DEF RingInv, RingTypeOK
  <2>3. CASE ~(received_so_far > rx_seen_len)
    BY <1>5, <2>1, <2>3 DEF TakeNew, NewBytes, takenVars, dmaVars, arrived
  <2>. QED
    BY <2>2, <2>3
<1>. QED
  BY <1>1, <1>2, <1>3, <1>4, <1>5 DEF RingNext, RingThread

(***************************************************************************)
(* The refinement, for either driver and any buffer size: the parser gets  *)
(* every byte once and in order.                                           *)
(***************************************************************************)
THEOREM RingRefinesStream ==
    ASSUME Slack < N
    PROVE  RingSpec => ImplementsStream
<1>1. RingInit => Stream!StreamInit
  BY DEF RingInit, Stream!StreamInit, arrived
<1>2. RingInv /\ [RingNext]_ringVars => [Stream!StreamNext]_Stream!streamVars
  BY RingStepRefines
<1>. QED
  BY <1>1, <1>2, RingInvariant, PTL DEF RingSpec, ImplementsStream, Stream!StreamSpec
=============================================================================
