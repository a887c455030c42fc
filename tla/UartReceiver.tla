---------------------------- MODULE UartReceiver ----------------------------
(***************************************************************************)
(* Double-buffered UART reception of the VESC and the GPS driver: the DMA  *)
(* fills one buffer while the driver's thread parses the other.  The       *)
(* interrupt at the end of a full buffer and the thread's timeout, for a   *)
(* buffer that is only partly full, both swap the buffers; processing_done_*)
(* says whether a swap is allowed.                                         *)
(*                                                                         *)
(* The interrupt is one step; it can come between any two of the thread's  *)
(* accesses to what they share, except inside the thread's system lock.    *)
(***************************************************************************)
EXTENDS Naturals

CONSTANTS
    Driver,            \* "vesc" or "gps"
    RECV_BUFFER_SIZE   \* 260 and 512 bytes

ASSUME ReceiverAssumption ==
    /\ Driver \in {"vesc", "gps"}
    /\ RECV_BUFFER_SIZE \in Nat
    /\ RECV_BUFFER_SIZE >= 2

Other(b) == 3 - b

VARIABLES
    recv,              \* buffer the DMA receives into: recv_buffer1_ or recv_buffer2_
    received,          \* bytes in it
    processing_buffer, processing_buffer_len, processing_done,
    events,            \* events signalled to the thread and not yet served
    pc,                \* where the thread is in threadFunc
    expects_packet,    \* local of threadFunc (VESC)
    last_ndtr,         \* local of threadFunc: NDTR at the last timeout
    reading,           \* buffer the parser has been given, or 0
    \* History variables, read by the properties only.
    unread,            \* a buffer with data was handed over and not yet given to the parser
    dropped,           \* such a buffer was handed over again or reset
    raced              \* the interrupt came between a timeout and the system lock

sharedVars == <<processing_buffer, processing_buffer_len, processing_done>>
localVars == <<expects_packet, last_ndtr>>
rxVars == <<recv, received, sharedVars, events, pc, localVars, reading, unread, dropped, raced>>

RxTypeOK ==
    /\ recv \in {1, 2}
    /\ received \in 0..(RECV_BUFFER_SIZE - 1)
    /\ processing_buffer \in {1, 2}
    /\ processing_buffer_len \in 0..RECV_BUFFER_SIZE
    /\ processing_done \in BOOLEAN
    /\ events \in SUBSET {"received", "expect"}
    /\ pc \in {"wait", "timeout", "lock", "check", "process", "reset", "finish"}
    /\ expects_packet \in BOOLEAN
    /\ last_ndtr \in 0..RECV_BUFFER_SIZE
    /\ reading \in {0, 1, 2}
    /\ unread \in BOOLEAN
    /\ dropped \in BOOLEAN
    /\ raced \in BOOLEAN

RxInit ==
    /\ recv = 1
    /\ received = 0
    /\ processing_buffer = 2
    /\ processing_buffer_len = 0
    /\ processing_done = TRUE
    /\ events = {}
    /\ pc = "wait"
    /\ expects_packet = FALSE
    /\ last_ndtr = 0
    /\ reading = 0
    /\ unread = FALSE
    /\ dropped = FALSE
    /\ raced = FALSE

-----------------------------------------------------------------------------
(* The UART.                                                               *)

\* Bytes still to be received into the buffer (the DMA's NDTR register).
NDTR == RECV_BUFFER_SIZE - received

ByteReceived ==
    /\ received < RECV_BUFFER_SIZE - 1
    /\ received' = received + 1
    /\ UNCHANGED <<recv, sharedVars, events, pc, localVars, reading, unread, dropped, raced>>

\* The buffers change roles: the DMA goes on in the buffer that was parsed last,
\* the thread gets the other one with len bytes in it.
Swap(len) ==
    /\ recv' = processing_buffer
    /\ received' = 0
    /\ processing_buffer' = Other(processing_buffer)
    /\ processing_buffer_len' = len
    /\ processing_done' = FALSE
    /\ unread' = (len > 0)
    /\ dropped' = (dropped \/ unread)

\* Deviation: rxend_cb swaps whatever the thread is doing.
SwapAlways ==
    /\ received = RECV_BUFFER_SIZE - 1
    /\ Swap(RECV_BUFFER_SIZE)
    /\ events' = events \cup {"received"}
    /\ UNCHANGED <<pc, localVars, reading, raced>>

\* Deviation: rxend_cb forgets to signal the thread.
SwapSilently ==
    /\ received = RECV_BUFFER_SIZE - 1
    /\ IF processing_done
       THEN Swap(RECV_BUFFER_SIZE)
       ELSE /\ recv' = Other(processing_buffer)
            /\ received' = 0
            /\ UNCHANGED <<sharedVars, unread, dropped>>
    /\ UNCHANGED <<events, pc, localVars, reading, raced>>

\* The last byte arrives: rxend_cb.  While the thread is busy the same buffer is
\* filled again.
RxEnd ==
    /\ received = RECV_BUFFER_SIZE - 1
    /\ IF processing_done
       THEN /\ Swap(RECV_BUFFER_SIZE)
            /\ events' = events \cup {"received"}
       ELSE /\ recv' = Other(processing_buffer)
            /\ received' = 0
            /\ UNCHANGED <<sharedVars, events, unread, dropped>>
    /\ UNCHANGED <<pc, localVars, reading, raced>>

\* RequestStatus and RawDataInput of the VESC driver wake the thread.
RequestStatus ==
    /\ Driver = "vesc"
    /\ events' = events \cup {"expect"}
    /\ UNCHANGED <<recv, received, sharedVars, pc, localVars, reading, unread, dropped, raced>>

-----------------------------------------------------------------------------
(* threadFunc.                                                             *)

\* Only the wait of the VESC driver that expects no packet is without a timeout
\* (status_request_millis_ is always 0).
Polling == Driver = "gps" \/ expects_packet

WaitTimeout ==
    /\ pc = "wait"
    /\ events = {}
    /\ Polling
    /\ pc' = "timeout"
    /\ UNCHANGED <<recv, received, sharedVars, events, localVars, reading, unread, dropped, raced>>

\* The reception event, which is served before the other one.
WaitReceived ==
    /\ pc = "wait"
    /\ "received" \in events
    /\ events' = events \ {"received"}
    /\ pc' = "check"
    /\ UNCHANGED <<recv, received, sharedVars, localVars, reading, unread, dropped, raced>>

WaitExpect ==
    /\ pc = "wait"
    /\ events = {"expect"}
    /\ events' = {}
    /\ expects_packet' = TRUE
    /\ last_ndtr' = 0
    /\ UNCHANGED <<recv, received, sharedVars, pc, reading, unread, dropped, raced>>

\* After a timeout: wait again if bytes have arrived since the last timeout.
CheckNDTR ==
    /\ pc = "timeout"
    /\ pc' = IF last_ndtr # NDTR THEN "wait" ELSE "lock"
    /\ last_ndtr' = NDTR
    /\ UNCHANGED <<recv, received, sharedVars, events, expects_packet, reading, unread, dropped, raced>>

\* Under the system lock: take the partly filled buffer, unless the interrupt
\* has handed one over since the timeout.
TakePartial ==
    /\ pc = "lock"
    /\ pc' = "check"
    /\ IF processing_done
       THEN Swap(received) /\ UNCHANGED raced
       ELSE /\ raced' = TRUE
            /\ UNCHANGED <<recv, received, sharedVars, unread, dropped>>
    /\ UNCHANGED <<events, localVars, reading>>

\* The parser gets the buffer if there is anything in it.
CheckLength ==
    /\ pc = "check"
    /\ IF processing_buffer_len > 0
       THEN pc' = "process" /\ reading' = processing_buffer /\ unread' = FALSE
       ELSE /\ pc' = IF Driver = "gps" THEN "reset" ELSE "finish"
            /\ UNCHANGED <<reading, unread>>
    /\ UNCHANGED <<recv, received, sharedVars, events, localVars, dropped, raced>>

\* ProcessBytes or RawDataOutput returns; the VESC driver may expect no more.
ProcessBytesReturns(more) ==
    /\ pc = "process"
    /\ pc' = "reset"
    /\ reading' = 0
    /\ expects_packet' = (expects_packet /\ more)
    /\ UNCHANGED <<recv, received, sharedVars, events, last_ndtr, unread, dropped, raced>>

ResetLength ==
    /\ pc = "reset"
    /\ pc' = "finish"
    /\ processing_buffer_len' = 0
    /\ last_ndtr' = IF Driver = "gps" THEN 0 ELSE last_ndtr
    /\ unread' = FALSE
    /\ dropped' = (dropped \/ unread)
    /\ UNCHANGED <<recv, received, processing_buffer, processing_done, events, expects_packet,
                   reading, raced>>

\* Deviation: processing_done_ is not set again.
FinishForgotten ==
    /\ pc = "finish"
    /\ pc' = "wait"
    /\ UNCHANGED <<recv, received, sharedVars, events, localVars, reading, unread, dropped, raced>>

Finish ==
    /\ pc = "finish"
    /\ pc' = "wait"
    /\ processing_done' = TRUE
    /\ UNCHANGED <<recv, received, processing_buffer, processing_buffer_len, events, localVars,
                   reading, unread, dropped, raced>>

Thread ==
    \/ WaitTimeout \/ WaitReceived \/ WaitExpect
    \/ CheckNDTR \/ TakePartial \/ CheckLength
    \/ \E more \in BOOLEAN : ProcessBytesReturns(more)
    \/ ResetLength \/ Finish

RxNext == ByteReceived \/ RxEnd \/ RequestStatus \/ Thread
RxSpec == RxInit /\ [][RxNext]_rxVars

-----------------------------------------------------------------------------
(* Properties.                                                             *)

\* "to signal if it's safe to process more data": the DMA never receives into the
\* buffer that the parser is reading.
ParserOwnsBuffer == reading # 0 => recv # reading

\* A buffer that was handed over is given to the parser, and not while the DMA
\* writes into it, as long as no interrupt has come between a timeout and the
\* system lock that follows it.
OnlyRaceLosesData == ~raced => ParserOwnsBuffer /\ ~dropped

\* No lost wake-up: when the thread waits with a buffer still to be parsed, or with
\* swapping switched off, the event that brings it back is pending.
NoStuckBuffer ==
    pc = "wait" /\ (~processing_done \/ processing_buffer_len > 0) => "received" \in events

\* threadFunc asserts that it does not restart the reception into the buffer the
\* DMA is already filling.
BuffersDistinct == recv # processing_buffer

\* What the flag, the length and the event say of each other: with no race so far
\* the flag is off exactly from the hand-over to the end of the round.
HandoverInv ==
    /\ pc \in {"timeout", "lock"} /\ (~processing_done \/ processing_buffer_len > 0)
       => "received" \in events
    /\ pc = "finish" /\ processing_buffer_len > 0 => "received" \in events
    /\ reading # 0 => pc = "process"
    /\ ~raced =>
        /\ pc \in {"wait", "timeout", "lock"} =>
            /\ "received" \in events => ~processing_done
            /\ processing_done => ~unread
        /\ pc \in {"check", "process", "reset", "finish"} =>
            "received" \notin events /\ ~processing_done
        /\ pc \in {"process", "reset", "finish"} => ~unread
        /\ unread => processing_buffer_len > 0
        /\ reading # 0 => reading = processing_buffer

\* The inductive invariant.
RxInv == RxTypeOK /\ BuffersDistinct /\ NoStuckBuffer /\ OnlyRaceLosesData /\ HandoverInv

\* What has been received is taken, even when the buffer is never filled: two
\* timeouts after the last byte at the latest, if no request comes between them
\* (a timeout is 10 ms, the status is requested every 40 ms).
ReceivedIsTaken ==
    <>[]("expect" \notin events) => (received > 0 /\ Polling ~> received = 0 \/ ~Polling)
=============================================================================
