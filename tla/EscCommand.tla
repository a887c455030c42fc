----------------------------- MODULE EscCommand -----------------------------
(***************************************************************************)
(* How a duty reaches a motor controller (ESC).  Four threads share one    *)
(* driver and its mutex_:                                                  *)
(*   - the motor service calls SetDuty in every tick and on an emergency;  *)
(*   - the YFR4 driver's thread resends the last duty every 100 ms;        *)
(*   - the thread of DebugTCPInterface gives a TCP client raw access;      *)
(*   - the driver's receive thread hands what the ESC sends to the client  *)
(*     while it has raw access (the same thread as the heartbeat's in the  *)
(*     YFR4 driver).                                                       *)
(* The service's own mutex makes its calls one after the other.            *)
(***************************************************************************)
EXTENDS Naturals

CONSTANTS
  Duties,       \* duty cycles, 0 among them
  RawDuties,    \* duties the bytes of a raw client may command
  MaxSessions   \* bound on the connections accepted

ASSUME EscConstants ==
  /\ MaxSessions \in Nat
  /\ 0 \in Duties /\ RawDuties \subseteq Duties

VARIABLES
  yfr4,      \* TRUE: YFR4escDriver, FALSE: VescDriver
  want,      \* the duty of the service's latest call of SetDuty
  svc,       \* service: "idle", "check" (raw mode?), "send", "sending"
  last,      \* last_duty_
  hb, hbDuty,\* heartbeat: "wait", "send", "sending", and SendControl's argument
  mutex,     \* owner of mutex_, or "free"
  raw,       \* is_raw_mode_
  sock,      \* client connection: "none", "open", "closed" or "reset" by it
  sess,      \* debug thread: "accept", "on", "read", "input", "sending", "off"
  rx,        \* receive thread: "idle", "writing"
  esc,       \* the duty the ESC runs with
  accepted,  \* history: the duty of the last SetDuty that was not ignored
  stale,     \* history: packets with another duty since then, up to 2
  sessions

svcVars == <<want, svc>>
hbVars == <<hb, hbDuty>>
history == <<accepted, stale, sessions>>
escVars == <<yfr4, svcVars, last, hbVars, mutex, raw, sock, sess, rx, esc, history>>

EscInit ==
  /\ yfr4 \in BOOLEAN
  /\ want = 0 /\ svc = "idle" /\ last = 0 /\ hb = "wait" /\ hbDuty = 0
  /\ mutex = "free" /\ raw = FALSE /\ sock = "none" /\ sess = "accept"
  /\ rx = "idle" /\ esc = 0 /\ accepted = 0 /\ stale = 0 /\ sessions = 0

Lock(t) == mutex = "free" /\ mutex' = t
Unlock(t) == mutex = t /\ mutex' = "free"

-----------------------------------------------------------------------------
\* The service calls SetDuty(d).
Command(d) ==
  /\ svc = "idle" /\ want' = d /\ svc' = "check"
  /\ UNCHANGED <<yfr4, last, hbVars, mutex, raw, sock, sess, rx, esc, history>>

\* Deviation: last_duty_ is not updated.
LastDutyForgotten == UNCHANGED last

LastDuty == last' = IF yfr4 THEN want ELSE last

\* Deviation: SetDuty waits for the end of raw mode.
SetDutyWaits == raw /\ UNCHANGED <<svc, last, accepted, stale>>

\* The early return in raw mode.
SetDutyIgnored == raw /\ svc' = "idle" /\ UNCHANGED <<last, accepted, stale>>

\* SetDuty up to SendControl or SendPacket.
SetDuty ==
  /\ svc = "check" /\ mutex = "free"
  /\ \/ SetDutyIgnored
     \/ /\ ~raw /\ svc' = "send" /\ LastDuty
        /\ accepted' = want /\ stale' = IF want = accepted THEN stale ELSE 0
  /\ UNCHANGED <<yfr4, want, hbVars, mutex, raw, sock, sess, rx, esc, sessions>>

\* SendControl and SendPacket from the service: lock, send, unlock.
Send ==
  /\ svc = "send" /\ Lock("svc") /\ svc' = "sending"
  /\ UNCHANGED <<yfr4, want, last, hbVars, raw, sock, sess, rx, esc, history>>

Sent ==
  /\ svc = "sending" /\ Unlock("svc") /\ svc' = "idle" /\ esc' = want
  /\ UNCHANGED <<yfr4, want, last, hbVars, raw, sock, sess, rx, history>>

Service == SetDuty \/ Send \/ Sent

-----------------------------------------------------------------------------
\* The heartbeat reads last_duty_ before SendControl takes the mutex.
Heartbeat ==
  /\ yfr4 /\ hb = "wait" /\ rx = "idle"
  /\ hb' = "send" /\ hbDuty' = last
  /\ UNCHANGED <<yfr4, svcVars, last, mutex, raw, sock, sess, rx, esc, history>>

HeartbeatSend ==
  /\ hb = "send" /\ Lock("hb") /\ hb' = "sending"
  /\ UNCHANGED <<yfr4, svcVars, last, hbDuty, raw, sock, sess, rx, esc, history>>

HeartbeatSent ==
  /\ hb = "sending" /\ Unlock("hb") /\ hb' = "wait" /\ esc' = hbDuty
  /\ stale' = IF hbDuty = accepted \/ stale = 2 THEN stale ELSE stale + 1
  /\ UNCHANGED <<yfr4, svcVars, last, hbDuty, raw, sock, sess, rx, accepted, sessions>>

HeartbeatThread == Heartbeat \/ HeartbeatSend \/ HeartbeatSent

-----------------------------------------------------------------------------
\* DebugTCPInterface::ThreadFunc
Accept ==
  /\ sess = "accept" /\ sock = "none" /\ sessions < MaxSessions
  /\ sock' = "open" /\ sess' = "on" /\ sessions' = sessions + 1
  /\ UNCHANGED <<yfr4, svcVars, last, hbVars, mutex, raw, rx, esc, accepted, stale>>

RawAccessOn ==
  /\ sess = "on" /\ mutex = "free"
  /\ raw' = TRUE /\ sess' = "read"
  /\ UNCHANGED <<yfr4, svcVars, last, hbVars, mutex, sock, rx, esc, history>>

\* Deviation: the end of the stream is taken for data.
ReadEndsNever == FALSE

\* read() of a closed connection returns 0.  That of one that was reset returns
\* -1, which is greater than 0 once it is in bytes_received, a size_t.
ReadEnds == sock = "closed"

Read ==
  /\ sess = "read"
  /\ sess' = IF ReadEnds THEN "off" ELSE "input"
  /\ UNCHANGED <<yfr4, svcVars, last, hbVars, mutex, raw, sock, rx, esc, history>>

RawDataInput ==
  /\ sess = "input" /\ Lock("raw") /\ sess' = "sending"
  /\ UNCHANGED <<yfr4, svcVars, last, hbVars, raw, sock, rx, esc, history>>

RawDataSent ==
  /\ sess = "sending" /\ Unlock("raw") /\ sess' = "read"
  /\ esc' \in RawDuties \cup {esc}
  /\ UNCHANGED <<yfr4, svcVars, last, hbVars, raw, sock, rx, history>>

RawAccessOff ==
  /\ sess = "off" /\ mutex = "free"
  /\ raw' = FALSE /\ sock' = "none" /\ sess' = "accept"
  /\ UNCHANGED <<yfr4, svcVars, last, hbVars, mutex, rx, esc, history>>

DebugThread ==
  RawAccessOn \/ Read \/ RawDataInput \/ RawDataSent \/ RawAccessOff

ClientLeaves ==
  /\ sock = "open"
  /\ sock' \in {"closed", "reset"}
  /\ UNCHANGED <<yfr4, svcVars, last, hbVars, mutex, raw, sess, rx, esc, history>>

\* RawDataOutput calls OnRawDriverData, which writes to the socket, with the
\* driver's mutex locked; the write waits until the client has read enough.
RawDataOutput ==
  /\ raw /\ rx = "idle" /\ hb = "wait" /\ Lock("rx") /\ rx' = "writing"
  /\ UNCHANGED <<yfr4, svcVars, last, hbVars, raw, sock, sess, esc, history>>

RawDataWritten ==
  /\ rx = "writing" /\ Unlock("rx") /\ rx' = "idle"
  /\ UNCHANGED <<yfr4, svcVars, last, hbVars, raw, sock, sess, esc, history>>

EscNext ==
  \/ \E d \in Duties : Command(d)
  \/ Service \/ HeartbeatThread \/ DebugThread
  \/ Accept \/ ClientLeaves \/ RawDataOutput \/ RawDataWritten

EscSpec == EscInit /\ [][EscNext]_escVars

-----------------------------------------------------------------------------
\* A duty the service keeps commanding, without a raw client, is the one the
\* ESC ends up with, however the heartbeat, the service's calls and a raw
\* session that ended interleave.
DutyReachesEsc ==
  \A d \in Duties : <>[](want = d /\ ~raw) => <>[](esc = d)

\* The heartbeat may read last_duty_ before SetDuty changes it and send it
\* afterwards, but once only: at most one packet with an old duty reaches the
\* ESC after a SetDuty.
AtMostOneStalePacket == stale <= 1

\* Every call of SetDuty returns, in raw mode and out of it, as long as no
\* debug client stays connected for ever: a client that does not read keeps
\* the write and with it mutex_, and so the main thread in an emergency.
SetDutyReturns == []<>(sock # "open") => (svc # "idle" ~> svc = "idle")

\* SetDuty is ignored while a raw stream is connected, and no longer: once
\* the client has closed the connection, raw mode ends.
RawModeEnds == sock = "closed" ~> ~raw
=============================================================================
